---------------------------- MODULE Spec2Model ----------------------------
(***************************************************************************)
(* Model of the GFX_Lab3 map application (sources/MyApp.cpp, Path.cpp,     *)
(* Station.cpp, Map.cpp, framework.cpp).                                   *)
(*                                                                         *)
(* The program computes in IEEE-754 single precision.  A float is modelled *)
(* as a pair <<m, e>> standing for m * 2^e, with m = 0 (zero) or           *)
(* 2^23 <= |m| < 2^24.  +, -, * and / round to nearest, ties to even,      *)
(* exactly as the hardware does.  The libm calls (sinf, cosf, tanf, logf,  *)
(* sinhf, atanf, asinf, acosf, atan2f, sqrt) are evaluated in 2^-30 fixed  *)
(* point and rounded to the nearest float, which agrees with glibc to      *)
(* within one or two units in the last place.  Signed zero and subnormals  *)
(* are not modelled, and the exponent is unbounded.                        *)
(***************************************************************************)
EXTENDS Integers, Sequences, FiniteSets, TLC

(***************************************************************************)
(* The application state (MyApp.cpp:168-175, framework.cpp:13) and the     *)
(* record of a single function call.                                       *)
(***************************************************************************)
VARIABLES
  stations,          \* std::vector<Station *>: each station's vertex list
  stationGeoCoords,  \* std::vector<vec2>
  paths,             \* std::vector<Path *>: each path's vertex list
  distances,         \* std::vector<float>
  hourOffset,        \* int
  screenRefresh,     \* framework.cpp: static bool screenRefresh
  frame,             \* what onDisplay drew last, in drawing order
  console,           \* the integers written to std::cout
  leftPresses,       \* history: the number of left-button presses so far
  glVertexArray,     \* the OpenGL context: the vertex array object bound
  glArrayBuffer,     \* the OpenGL context: the buffer bound to GL_ARRAY_BUFFER
  encodedData,       \* Map::decodeImage: its argument
  byteIndex,         \* Map::decodeImage: the position of the range-for loop
  pixelIndex,        \* Map::decodeImage: size_t pixelIndex
  pixels,            \* Map::decodeImage: std::vector<vec3> pixels
  lastWritten,       \* history: the highest index of pixels written, or -1
  decodePhase,       \* Map::decodeImage: where the call is
  fnOrigin,          \* the call a run of the functions starts with
  fnCall,            \* the call being made: << name, arguments >>
  fnResult           \* << what fnCall returned >>, << >> before it returns

vars ==
  << stations, stationGeoCoords, paths, distances, hourOffset, screenRefresh,
     frame, console, leftPresses, glVertexArray, glArrayBuffer, encodedData,
     byteIndex, pixelIndex, pixels, lastWritten, decodePhase, fnOrigin, fnCall,
     fnResult >>

glVars == << glVertexArray, glArrayBuffer >>

decodeVars ==
  << encodedData, byteIndex, pixelIndex, pixels, lastWritten, decodePhase >>

appVars ==
  << stations, stationGeoCoords, paths, distances, hourOffset, screenRefresh,
     frame, console, leftPresses >>

fnVars == << fnOrigin, fnCall, fnResult >>

(***************************************************************************)
(* Integer helpers.  Every intermediate stays below 2^31.                  *)
(***************************************************************************)
P2Tab ==
  << 1, 2, 4, 8, 16, 32, 64, 128, 256, 512, 1024, 2048, 4096, 8192, 16384,
     32768, 65536, 131072, 262144, 524288, 1048576, 2097152, 4194304,
     8388608, 16777216, 33554432, 67108864, 134217728, 268435456,
     536870912, 1073741824 >>

Pow2(k) == P2Tab[k + 1]

Abs(n) == IF n >= 0 THEN n ELSE -n

Sgn(n) == IF n > 0 THEN 1 ELSE IF n < 0 THEN -1 ELSE 0

RECURSIVE BitLenRec(_, _, _)
\* The bit length of n, knowing 2^lo <= n < 2^hi.
BitLenRec(n, lo, hi) ==
  IF hi = lo + 1 THEN hi
  ELSE LET mid == (lo + hi) \div 2
       IN  IF n >= Pow2(mid) THEN BitLenRec(n, mid, hi)
           ELSE BitLenRec(n, lo, mid)

\* The number of bits of n >= 1.
BitLen(n) == IF n >= Pow2(30) THEN 31 ELSE BitLenRec(n, 0, 30)

\* a * b = hi * 2^30 + lo, for 0 <= a, b <= 2^30, by 15-bit limbs.
MulHiLo(a, b) ==
  LET B   == Pow2(15)
      a1  == a \div B
      a0  == a % B
      b1  == b \div B
      b0  == b % B
      low == a0 * b0
      mid == a1 * b0 + a0 * b1 + low \div B
  IN  << a1 * b1 + mid \div B, (mid % B) * B + (low % B) >>

\* Every call of a function goes through Call, which evaluates the arguments
\* (the components of its tuple) before the function is entered, as C++
\* does; Call is defined once all the functions are.
RECURSIVE Call(_)

\* C++ evaluates its statements in program order.  Then(steps, value) is
\* value, evaluated after the tuple steps of intermediate results has been
\* evaluated from left to right (a tuple's components are evaluated in
\* order).
Then(steps, value) == << steps, value >>[2]

\* One digit of a long division by b: qr = <<quotient so far, remainder>>.
DivStep(qr, b, base) ==
  LET t == qr[2] * base IN << qr[1] * base + t \div b, t % b >>

RECURSIVE DivDigits(_, _, _, _)
\* n further digits of the long division: the first half of them, then the
\* rest.
DivDigits(qr, b, base, n) ==
  IF n = 0 THEN qr
  ELSE IF n = 1 THEN DivStep(qr, b, base)
  ELSE LET firstHalf == DivDigits(qr, b, base, n \div 2)
       IN  Then(<< firstHalf >>,
                DivDigits(firstHalf, b, base, n - n \div 2))

(***************************************************************************)
(* float: values, rounding and the four operations.                        *)
(***************************************************************************)
Zero == << 0, 0 >>

NaN == << 0, 1 >>

PosInf == << 1, 0 >>

NegInf == << -1, 0 >>

IsNaN(x) == x = NaN

IsInf(x) == x = PosInf \/ x = NegInf

IsFinite(x) == x = Zero \/ Abs(x[1]) >= Pow2(23)

\* a * 2^e for a >= 2^24 of sh + 24 bits, rounded to 24 bits, nearest, ties
\* to even, with the sign s.
RoundShift(s, a, sh, e, sticky) ==
  LET q    == a \div Pow2(sh)
      r    == a % Pow2(sh)
      half == Pow2(sh - 1)
  IN  IF r > half \/ (r = half /\ (sticky = 1 \/ q % 2 = 1))
      THEN (IF q + 1 = Pow2(24) THEN << s * Pow2(23), e + sh + 1 >>
            ELSE << s * (q + 1), e + sh >>)
      ELSE << s * q, e + sh >>

\* s * a * 2^e for a >= 1 of L bits, as a float.
RoundBits(s, a, L, e, sticky) ==
  IF L <= 24 THEN << s * a * Pow2(24 - L), e - (24 - L) >>
  ELSE RoundShift(s, a, L - 24, e, sticky)

\* n * 2^e rounded to 24 significant bits, nearest, ties to even.  sticky = 1
\* says the exact magnitude is a little above |n| (less than one unit of n).
RoundNE(n, e, sticky) ==
  IF n = 0 THEN Zero
  ELSE RoundBits(Sgn(n), Abs(n), BitLen(Abs(n)), e, sticky)

\* static_cast<float>(n) for an integer n.
FromInt(n) == RoundNE(n, 0, 0)

FNeg(x) == IF IsNaN(x) THEN NaN ELSE << -x[1], x[2] >>

FAbs(x) == IF IsNaN(x) THEN NaN ELSE << Abs(x[1]), x[2] >>

\* x + y for non-zero finite x, y with x's exponent the larger: six guard
\* bits and a sticky bit.
AddFinite(x, y) ==
  LET d   == x[2] - y[2]
      g   == IF d < 6 THEN d ELSE 6
      sh  == d - g
      big == Abs(x[1]) * Pow2(g)
      ys  == Abs(y[1]) \div Pow2(sh)
      st  == IF Abs(y[1]) % Pow2(sh) # 0 THEN 1 ELSE 0
  IN  IF d > 26 THEN x
      ELSE IF Sgn(x[1]) = Sgn(y[1])
           THEN RoundNE(Sgn(x[1]) * (big + ys), y[2] + sh, st)
           ELSE RoundNE(Sgn(x[1]) * (big - ys - st), y[2] + sh, st)

FAdd(x, y) ==
  IF IsNaN(x) \/ IsNaN(y) THEN NaN
  ELSE IF IsInf(x) THEN (IF IsInf(y) /\ y # x THEN NaN ELSE x)
  ELSE IF IsInf(y) THEN y
  ELSE IF x = Zero THEN y
  ELSE IF y = Zero THEN x
  ELSE IF x[2] >= y[2] THEN Call(<< "AddFinite", x, y >>) ELSE Call(<< "AddFinite", y, x >>)

FSub(x, y) == Call(<< "FAdd", x, FNeg(y) >>)

FMul(x, y) ==
  IF IsNaN(x) \/ IsNaN(y) THEN NaN
  ELSE IF IsInf(x) \/ IsInf(y)
       THEN (IF x = Zero \/ y = Zero THEN NaN
             ELSE IF Sgn(x[1]) * Sgn(y[1]) > 0 THEN PosInf ELSE NegInf)
  ELSE IF x = Zero \/ y = Zero THEN Zero
  ELSE LET p  == MulHiLo(Abs(x[1]), Abs(y[1]))
           n  == p[1] * Pow2(12) + p[2] \div Pow2(18)
           st == IF p[2] % Pow2(18) # 0 THEN 1 ELSE 0
       IN  RoundNE(Sgn(x[1]) * Sgn(y[1]) * n, x[2] + y[2] + 18, st)

FDiv(x, y) ==
  IF IsNaN(x) \/ IsNaN(y) THEN NaN
  ELSE IF IsInf(x)
       THEN (IF IsInf(y) THEN NaN
             ELSE IF Sgn(x[1]) * (IF y[1] >= 0 THEN 1 ELSE -1) > 0
                  THEN PosInf ELSE NegInf)
  ELSE IF IsInf(y) THEN Zero
  ELSE IF y = Zero
       THEN (IF x = Zero THEN NaN ELSE IF x[1] > 0 THEN PosInf ELSE NegInf)
  ELSE IF x = Zero THEN Zero
  ELSE LET a  == Abs(x[1])
           b  == Abs(y[1])
           s4 == DivDigits(<< a \div b, a % b >>, b, 64, 4)
           s5 == DivStep(s4, b, 16)
           st == IF s5[2] # 0 THEN 1 ELSE 0
       IN  RoundNE(Sgn(x[1]) * Sgn(y[1]) * s5[1], x[2] - y[2] - 28, st)

\* x < y; false when either is NaN.
FLt(x, y) ==
  IF IsNaN(x) \/ IsNaN(y) \/ x = y THEN FALSE
  ELSE IF x = NegInf \/ y = PosInf THEN TRUE
  ELSE IF x = PosInf \/ y = NegInf THEN FALSE
  ELSE FSub(x, y)[1] < 0

FGt(x, y) == Call(<< "FLt", y, x >>)

(***************************************************************************)
(* Fixed-point kernels.  A "Q30" number is an integer n standing for       *)
(* n / 2^30.  The constants are pi and ln 2 at the stated scale.           *)
(***************************************************************************)
ONE == Pow2(30)

\* pi/2 * 2^29 rounded down; PIO2_CORR = pi/2 * 2^30 - 2 * PIO2_29.
PIO2_29 == 843314856

PIO2_CORR == 1

PIO2_30 == 1686629713

PIO4_29 == 421657428

PIO4_30 == 843314857

PI_29 == 1686629713

\* ln 2 * 2^30, ln 2 * 2^28 rounded down; LN2_CORR = LN2_30 - 4 * LN2_28.
LN2_30 == 744261118

LN2_28 == 186065279

LN2_CORR == 2

\* tan(pi/8) = sqrt 2 - 1, Q30.
TAN_PIO8 == 444758426

\* pi/180 = (D2R_HI * 2^15 + D2R_LO) / 2^50, 180/pi = (R2D_HI * 2^15 + R2D_LO) / 2^39.
D2R_HI == 599690564

D2R_LO == 21149

R2D_HI == 961263668

R2D_LO == 25537

\* The product of two Q30 numbers (truncated toward zero).
QMul(a, b) == Sgn(a) * Sgn(b) * MulHiLo(Abs(a), Abs(b))[1]

\* The integer nearest to x * 2^fb, for a finite float x.
FixOf(x, fb) ==
  LET sh == x[2] + fb
  IN  IF sh >= 0 THEN x[1] * Pow2(sh)
      ELSE IF -sh > 30 THEN 0
      ELSE Sgn(x[1]) * ((Abs(x[1]) + Pow2(-sh - 1)) \div Pow2(-sh))

\* float x times the 45-bit constant chi * 2^15 + clo, computed in double
\* precision by the program and rounded to float once.
MulConst45(x, chi, clo, ex) ==
  IF IsNaN(x) THEN NaN
  ELSE IF IsInf(x) THEN x
  ELSE IF x = Zero THEN Zero
  ELSE LET m  == Abs(x[1])
           p1 == MulHiLo(m, chi)
           p2 == MulHiLo(m, clo)
           u  == p1[2] + p2[1] * Pow2(15) + p2[2] \div Pow2(15)
           n  == p1[1] * 64 + u \div Pow2(24)
       IN  RoundNE(Sgn(x[1]) * n, x[2] + ex, 1)

\* float x times p / 2^30 (0 < p < 2^31), rounded to float.
MulQ(x, p) ==
  LET h == MulHiLo(Abs(x[1]), p \div 2)
  IN  RoundNE(Sgn(x[1]) * (h[1] * 64 + h[2] \div Pow2(24)), x[2] - 5, 1)

\* x * M_PI / 180.0f : the product x * M_PI is a double, so is the quotient.
DegToRad(x) == Call(<< "MulConst45", x, D2R_HI, D2R_LO, -11 >>)

\* x * 180.0f / M_PI
RadToDeg(x) == Call(<< "MulConst45", x, R2D_HI, R2D_LO, 0 >>)

\* floor(p * 2^30 / b) for 0 <= p <= b, 0 < b < 2^30.
QRatioN(p, b) ==
  LET s == 30 - BitLen(b)
      n == (30 + s - 1) \div s
      r == DivDigits(<< p \div b, p % b >>, b, Pow2(s), n)
  IN  r[1] \div Pow2(s * n - 30)

\* floor(p * 2^30 / b) for 0 <= p <= b, 0 < b < 2^31.
QRatio(p, b) ==
  IF b >= Pow2(29) THEN Call(<< "QRatioN", p \div 4, b \div 4 >>) ELSE Call(<< "QRatioN", p, b >>)

\* (a / b) * 2^e rounded to float, for integers 0 < |a|, |b| < 2^31.
RatioToFloatE(a, b, e) ==
  LET sa == 30 - BitLen(Abs(a))
      sb == 30 - BitLen(Abs(b))
      a1 == IF sa >= 0 THEN Abs(a) * Pow2(sa) ELSE Abs(a) \div 2
      b1 == IF sb >= 0 THEN Abs(b) * Pow2(sb) ELSE Abs(b) \div 2
      r  == DivDigits(<< a1 \div b1, a1 % b1 >>, b1, 2, 28)
  IN  RoundNE(Sgn(a) * Sgn(b) * r[1], e + sb - sa - 28,
              IF r[2] # 0 THEN 1 ELSE 0)

(***************************************************************************)
(* sinf, cosf, tanf: reduction by multiples of pi/2, Taylor kernels.       *)
(***************************************************************************)
RECURSIVE Horner(_, _, _, _)
\* A nested polynomial, innermost level first: Level(acc, j) applied for
\* j = hi, hi - 1, ..., lo to the innermost value acc; the upper half of
\* the levels, then the rest.
Horner(Level(_, _), acc, hi, lo) ==
  IF hi < lo THEN acc
  ELSE IF hi = lo THEN Level(acc, hi)
  ELSE LET mid   == (hi + lo + 1) \div 2
           upper == Horner(Level, acc, hi, mid)
       IN  Then(<< upper >>, Horner(Level, upper, mid - 1, lo))

\* sin(r)/r = 1 - r2/(2*3) (1 - r2/(4*5) (1 - ...)) from level k on.
SinPoly(r2, k) ==
  Horner(LAMBDA acc, j : ONE - QMul(r2, acc) \div (2 * j * (2 * j + 1)),
         ONE, 6, k)

CosPoly(r2, k) ==
  Horner(LAMBDA acc, j : ONE - QMul(r2, acc) \div ((2 * j - 1) * 2 * j),
         ONE, 6, k)

SinK(r) == QMul(r, Call(<< "SinPoly", QMul(r, r), 1 >>))

CosK(r) == Call(<< "CosPoly", QMul(r, r), 1 >>)

\* For |x| < 4: <<k, r>> with |x| = k * pi/2 + r, r in Q30, |r| <= pi/4.
Reduce(x) ==
  LET A == FixOf(FAbs(x), 29)
      k == (A + PIO4_29) \div PIO2_29
  IN  << k, 2 * (A - k * PIO2_29) - k * PIO2_CORR >>

\* 2 * pi and 4 as floats.
TWO_PI == << 13176795, -21 >>

FOUR == FromInt(4)

\* sin x and cos x in Q30, for a finite x with |x| < 4.
SinQ(x) ==
  LET kr == Reduce(x)
      km == kr[1] % 4
      v  == IF km = 0 THEN Call(<< "SinK", kr[2] >>) ELSE IF km = 1 THEN Call(<< "CosK", kr[2] >>)
            ELSE IF km = 2 THEN -Call(<< "SinK", kr[2] >>) ELSE -Call(<< "CosK", kr[2] >>)
  IN  Sgn(x[1]) * v

CosQ(x) ==
  LET kr == Reduce(x)
      km == kr[1] % 4
  IN  IF km = 0 THEN Call(<< "CosK", kr[2] >>) ELSE IF km = 1 THEN -Call(<< "SinK", kr[2] >>)
      ELSE IF km = 2 THEN -Call(<< "CosK", kr[2] >>) ELSE Call(<< "SinK", kr[2] >>)

sinf(x) ==
  IF ~IsFinite(x) THEN NaN
  ELSE IF x = Zero THEN Zero
  ELSE IF ~Call(<< "FLt", FAbs(x), FOUR >>)
       THEN Call(<< "sinf", IF x[1] > 0 THEN FSub(x, TWO_PI) ELSE Call(<< "FAdd", x, TWO_PI >>) >>)
  ELSE LET kr == Reduce(x)
       IN  IF kr[1] = 0 THEN Call(<< "MulQ", x, Call(<< "SinPoly", QMul(kr[2], kr[2]), 1 >>) >>)
           ELSE RoundNE(Call(<< "SinQ", x >>), -30, 1)

cosf(x) ==
  IF ~IsFinite(x) THEN NaN
  ELSE IF x = Zero THEN FromInt(1)
  ELSE IF ~Call(<< "FLt", FAbs(x), FOUR >>)
       THEN Call(<< "cosf", IF x[1] > 0 THEN FSub(x, TWO_PI) ELSE Call(<< "FAdd", x, TWO_PI >>) >>)
  ELSE RoundNE(Call(<< "CosQ", x >>), -30, 0)

tanf(x) ==
  IF ~IsFinite(x) THEN NaN
  ELSE IF x = Zero THEN Zero
  ELSE IF ~Call(<< "FLt", FAbs(x), FOUR >>)
       THEN Call(<< "tanf", IF x[1] > 0 THEN FSub(x, TWO_PI) ELSE Call(<< "FAdd", x, TWO_PI >>) >>)
  ELSE LET kr == Reduce(x)
           r2 == QMul(kr[2], kr[2])
           s  == Call(<< "SinQ", x >>)
           c  == Call(<< "CosQ", x >>)
       IN  IF kr[1] = 0
           THEN Call(<< "RatioToFloatE", x[1], Call(<< "QRatio", CosPoly(r2, 1), Call(<< "SinPoly", r2, 1 >>) >>),
                              x[2] + 30 >>)
           ELSE IF s = 0 THEN Zero
           ELSE IF c = 0 THEN (IF s > 0 THEN PosInf ELSE NegInf)
           ELSE Call(<< "RatioToFloatE", s, c, 0 >>)

(***************************************************************************)
(* atanf, atan2f, sqrt, asinf, acosf.                                      *)
(***************************************************************************)
\* atan(w)/w = 1 - w2/3 + w2^2/5 - ... from level k on, for |w| <= tan(pi/8).
AtanPoly(w2, k) ==
  IF k >= 11 THEN ONE \div (2 * k + 1)
  ELSE Horner(LAMBDA acc, j : ONE \div (2 * j + 1) - QMul(w2, acc),
              ONE \div 23, 10, k)

AtanK(w) == QMul(w, Call(<< "AtanPoly", QMul(w, w), 0 >>))

\* atan t for t in [0, 1], Q30 to Q30: atan t = pi/4 - atan((1 - t)/(1 + t)).
AtanUnit(t) ==
  IF t <= TAN_PIO8 THEN Call(<< "AtanK", t >>)
  ELSE PIO4_30 - Call(<< "AtanK", QRatio((ONE - t) \div 2, ONE \div 2 + t \div 2) >>)

\* atan(p / b) in Q30 for integers p, b >= 0, not both zero.
AtanRatio(p, b) ==
  IF p <= b THEN Call(<< "AtanUnit", QRatio(p, b) >>)
  ELSE PIO2_30 - Call(<< "AtanUnit", QRatio(b, p) >>)

\* floor(a / b * 2^30) for floats 0 < a <= b.
FloatRatioQ(a, b) ==
  LET d == b[2] - a[2]
  IN  IF d = 0 THEN Call(<< "QRatio", a[1], b[1] >>)
      ELSE IF d > 31 THEN 0
      ELSE Call(<< "QRatio", a[1] \div 2, b[1] >>) \div Pow2(d - 1)

\* atan(a / b) in Q30 for finite floats a, b > 0.
AtanAbs(a, b) ==
  IF ~Call(<< "FLt", b, a >>) THEN Call(<< "AtanUnit", FloatRatioQ(a, b) >>)
  ELSE PIO2_30 - Call(<< "AtanUnit", FloatRatioQ(b, a) >>)

F_ONE == FromInt(1)

F_TAN_PIO8 == RoundNE(TAN_PIO8, -30, 0)

atanf(x) ==
  IF IsNaN(x) THEN NaN
  ELSE IF x = Zero THEN Zero
  ELSE IF IsInf(x) THEN RoundNE(Sgn(x[1]) * PIO2_30, -30, 1)
  ELSE IF Call(<< "FLt", FAbs(x), F_TAN_PIO8 >>)
       THEN LET w == FixOf(x, 30) IN Call(<< "MulQ", x, Call(<< "AtanPoly", QMul(w, w), 0 >>) >>)
  ELSE RoundNE(Sgn(x[1]) * Call(<< "AtanAbs", FAbs(x), F_ONE >>), -30, 1)

atan2f(y, x) ==
  IF IsNaN(x) \/ IsNaN(y) THEN NaN
  ELSE IF y = Zero
       THEN (IF x[1] >= 0 THEN Zero ELSE RoundNE(PI_29, -29, 1))
  ELSE IF x = Zero THEN RoundNE(Sgn(y[1]) * PIO2_30, -30, 1)
  ELSE IF IsInf(x) /\ IsInf(y)
       THEN RoundNE(Sgn(y[1]) * (IF x[1] > 0 THEN PIO4_30
                                 ELSE PIO2_30 + PIO4_30), -30, 1)
  ELSE IF IsInf(y) THEN RoundNE(Sgn(y[1]) * PIO2_30, -30, 1)
  ELSE IF IsInf(x)
       THEN (IF x[1] > 0 THEN Zero ELSE RoundNE(Sgn(y[1]) * PI_29, -29, 1))
  ELSE LET a == Call(<< "AtanAbs", FAbs(y), FAbs(x) >>)
       IN  IF x[1] > 0 THEN RoundNE(Sgn(y[1]) * a, -30, 1)
           ELSE RoundNE(Sgn(y[1]) * (PI_29 - a \div 2), -29, 1)

RECURSIVE IsqrtRec(_, _, _, _)
\* floor(sqrt n), one bit at a time: the cnt bits from bit downward, the
\* first half of them, then the rest.
IsqrtRec(n, bit, root, cnt) ==
  IF cnt = 1
  THEN LET c == root + bit IN IF c * c <= n THEN c ELSE root
  ELSE LET firstHalf == IsqrtRec(n, bit, root, cnt \div 2)
       IN  Then(<< firstHalf >>,
                IsqrtRec(n, bit \div Pow2(cnt \div 2), firstHalf,
                         cnt - cnt \div 2))

\* sqrt(c / 2^30) in Q30 for 2^28 <= c <= 2^30: one Newton step from the
\* 15-bit integer root.
QSqrtN(c) ==
  LET s0 == IsqrtRec(c, Pow2(14), 0, 15)
      Q  == (c \div s0) * Pow2(15) + ((c % s0) * Pow2(15)) \div s0
  IN  IF s0 >= Pow2(15) THEN ONE ELSE s0 * Pow2(14) + Q \div 2

\* sqrt(c / 2^30) in Q30 for 0 <= c <= 2^30.
QSqrt(c) ==
  IF c = 0 THEN 0
  ELSE IF c >= ONE THEN ONE
  ELSE LET j == (30 - BitLen(c)) \div 2
       IN  Call(<< "QSqrtN", c * Pow2(2 * j) >>) \div Pow2(j)

sqrtf(x) ==
  IF IsNaN(x) THEN NaN
  ELSE IF x = Zero THEN Zero
  ELSE IF x[1] < 0 THEN NaN
  ELSE IF IsInf(x) THEN PosInf
  ELSE LET j == IF (x[2] - 5) % 2 = 0 THEN 5 ELSE 6
       IN  RoundNE(Call(<< "QSqrtN", x[1] * Pow2(j) >>), -30 + (x[2] - j + 30) \div 2, 1)

\* sqrt(1 - z^2) in Q30 for 0 <= zq <= 2^30.
CoQ(zq) == LET n1 == ONE - zq IN Call(<< "QSqrt", n1 + QMul(n1, zq) >>)

asinf(z) ==
  IF IsNaN(z) \/ IsInf(z) THEN NaN
  ELSE IF z = Zero THEN Zero
  ELSE IF Call(<< "FLt", F_ONE, FAbs(z) >>) THEN NaN
  ELSE LET zq == FixOf(FAbs(z), 30)
       IN  RoundNE(Sgn(z[1]) * Call(<< "AtanRatio", zq, Call(<< "CoQ", zq >>) >>), -30, 1)

\* acosf is NaN outside [-1, 1].
acosf(z) ==
  IF IsNaN(z) \/ IsInf(z) THEN NaN
  ELSE IF Call(<< "FLt", F_ONE, FAbs(z) >>) THEN NaN
  ELSE IF z = F_ONE THEN Zero
  ELSE LET zq == FixOf(FAbs(z), 30)
           a  == Call(<< "AtanRatio", CoQ(zq), zq >>)
       IN  IF z[1] >= 0 THEN RoundNE(a, -30, 1)
           ELSE RoundNE(PI_29 - a \div 2, -29, 1)

(***************************************************************************)
(* logf, sinhf.                                                            *)
(***************************************************************************)
\* atanh(z)/z = 1 + z2/3 + z2^2/5 + ... from level k on.
LogPoly(z2, k) ==
  IF k >= 7 THEN ONE \div (2 * k + 1)
  ELSE Horner(LAMBDA acc, j : ONE \div (2 * j + 1) + QMul(z2, acc),
              ONE \div 15, 6, k)

\* ln x = k ln 2 + ln f, f in [0.75, 1.5), ln f = 2 atanh((f - 1)/(f + 1)).
logf(x) ==
  IF IsNaN(x) THEN NaN
  ELSE IF x = Zero THEN NegInf
  ELSE IF x[1] < 0 THEN NaN
  ELSE IF IsInf(x) THEN PosInf
  ELSE LET big == x[1] >= 3 * Pow2(22)
           M   == IF big THEN x[1] ELSE 2 * x[1]
           k   == IF big THEN x[2] + 24 ELSE x[2] + 23
           z   == Sgn(M - Pow2(24)) * Call(<< "QRatio", Abs(M - Pow2(24)), M + Pow2(24) >>)
           lnf == 2 * QMul(z, Call(<< "LogPoly", QMul(z, z), 0 >>))
           fb  == 30 - BitLen(Abs(k))
           kl  == MulHiLo(Abs(k), LN2_30)
           v   == Sgn(k) * (kl[1] * Pow2(fb) + kl[2] \div Pow2(30 - fb))
                  + lnf \div Pow2(30 - fb)
       IN  IF k = 0 THEN RoundNE(lnf, -30, IF lnf # 0 THEN 1 ELSE 0)
           ELSE RoundNE(v, -fb, 1)

\* sinh(y)/y = 1 + y2/(2*3) (1 + y2/(4*5) (1 + ...)) from level k on.
SinhPoly(y2, k) ==
  Horner(LAMBDA acc, j : ONE + QMul(y2, acc) \div (2 * j * (2 * j + 1)),
         ONE, 5, k)

\* (e^r - 1)/r = 1 + r/2 (1 + r/3 (1 + ...)) from level k on.
Expm1Poly(r, k) ==
  Horner(LAMBDA acc, j : ONE + QMul(r, acc) \div j, ONE, 12, k)

Expm1K(r) == QMul(r, Call(<< "Expm1Poly", r, 2 >>))

\* 0.34375 as a float.
SINH_SMALL == << 11534336, -25 >>

\* sinh y = (e^y - e^-y)/2 with y = k ln 2 + r, for |y| < 8.
sinhf(y) ==
  IF IsNaN(y) THEN NaN
  ELSE IF IsInf(y) THEN y
  ELSE IF y = Zero THEN Zero
  ELSE IF Call(<< "FLt", FAbs(y), SINH_SMALL >>)
       THEN LET yq == FixOf(FAbs(y), 30) IN Call(<< "MulQ", y, Call(<< "SinhPoly", QMul(yq, yq), 1 >>) >>)
  ELSE LET A == FixOf(FAbs(y), 28)
           k == (A + LN2_28 \div 2) \div LN2_28
           r == 4 * (A - k * LN2_28) - k * LN2_CORR
           U == ONE + Call(<< "Expm1K", r >>)
           V == ONE + Call(<< "Expm1K", -r >>)
           v == IF 2 * k + 1 <= 30 THEN U \div 2 - V \div Pow2(2 * k + 1)
                ELSE U \div 2
       IN  RoundNE(Sgn(y[1]) * v, -(30 - k), 1)

(***************************************************************************)
(* glm: vec2 is a record [x, y], vec3 a record [x, y, z] of floats.        *)
(***************************************************************************)
vec2(a, b) == [x |-> a, y |-> b]

vec3(a, b, c) == [x |-> a, y |-> b, z |-> c]

dot(a, b) == Call(<< "FAdd", FAdd(Call(<< "FMul", a.x, b.x >>), Call(<< "FMul", a.y, b.y >>)), Call(<< "FMul", a.z, b.z >>) >>)

scale(s, v) == vec3(Call(<< "FMul", s, v.x >>), Call(<< "FMul", s, v.y >>), Call(<< "FMul", s, v.z >>))

vadd(a, b) == vec3(Call(<< "FAdd", a.x, b.x >>), Call(<< "FAdd", a.y, b.y >>), Call(<< "FAdd", a.z, b.z >>))

\* mix(a, b, t) = a * (1 - t) + b * t
mix(a, b, t) == Call(<< "vadd", scale(FSub(F_ONE, t), a), Call(<< "scale", t, b >>) >>)

\* normalize(v) = v * inversesqrt(dot(v, v))
normalize(v) ==
  LET length == Call(<< "sqrtf", dot(v, v) >>)
  IN  Then(<< length >>, Call(<< "scale", FDiv(F_ONE, length), v >>))

(***************************************************************************)
(* Path.cpp: the coordinate transforms.                                    *)
(***************************************************************************)
\* -85.0f * M_PI / 180.0f and 85.0f * M_PI / 180.0f
latitudeMinRad == DegToRad(FromInt(-85))

latitudeMaxRad == DegToRad(FromInt(85))

\* logf(tanf(latitudeRad) + 1.0f / cosf(latitudeRad))
mercatorProjection(latitudeRad) ==
  LET tangent == Call(<< "tanf", latitudeRad >>)
      secant  == Call(<< "FDiv", F_ONE, Call(<< "cosf", latitudeRad >>) >>)
  IN  Then(<< tangent, secant >>, Call(<< "logf", FAdd(tangent, secant) >>))

mercatorProjectionMinY == Call(<< "mercatorProjection", latitudeMinRad >>)

mercatorProjectionMaxY == Call(<< "mercatorProjection", latitudeMaxRad >>)

\* A variant of geoToNormalizedMap that clamps y to [-1, 1].
geoToNormalizedMap_clamped(geo) ==
  LET latitudeRad         == DegToRad(geo.x)
      mercatorProjectionY == Call(<< "mercatorProjection", latitudeRad >>)
      normalizedMapY ==
        Call(<< "FAdd", FromInt(-1),
             Call(<< "FDiv", FMul(FromInt(2),
                       FSub(mercatorProjectionY, mercatorProjectionMinY)),
                  FSub(mercatorProjectionMaxY, mercatorProjectionMinY) >>) >>)
      clampedY == IF FGt(normalizedMapY, F_ONE) THEN F_ONE
                  ELSE IF Call(<< "FLt", normalizedMapY, FromInt(-1) >>) THEN FromInt(-1)
                  ELSE normalizedMapY
      normalizedMapX == Call(<< "FDiv", geo.y, FromInt(180) >>)
  IN  Then(<< mercatorProjectionY, clampedY >>,
           vec2(normalizedMapX, clampedY))

\* geo.x is the latitude, geo.y the longitude, both in degrees.
geoToNormalizedMap(geo) ==
  LET latitudeRad         == DegToRad(geo.x)
      mercatorProjectionY == Call(<< "mercatorProjection", latitudeRad >>)
      normalizedMapY ==
        Call(<< "FAdd", FromInt(-1),
             Call(<< "FDiv", FMul(FromInt(2),
                       FSub(mercatorProjectionY, mercatorProjectionMinY)),
                  FSub(mercatorProjectionMaxY, mercatorProjectionMinY) >>) >>)
      normalizedMapX == Call(<< "FDiv", geo.y, FromInt(180) >>)
  IN  Then(<< mercatorProjectionY >>, vec2(normalizedMapX, normalizedMapY))

\* A variant of mapCoordinatesToGeographic whose band ends at 80 degrees
\* instead of 85: the inverse no longer matches the forward projection.
mapCoordinatesToGeographic_band80(normalizedMap) ==
  LET longitude == Call(<< "FMul", normalizedMap.x, FromInt(180) >>)
      yMin == Call(<< "mercatorProjection", DegToRad(FromInt(-80)) >>)
      yMax == Call(<< "mercatorProjection", DegToRad(FromInt(80)) >>)
      y == Call(<< "FAdd", yMin, Call(<< "FMul", FDiv(Call(<< "FAdd", normalizedMap.y, F_ONE >>), FromInt(2)),
                           FSub(yMax, yMin) >>) >>)
      sinhY == Call(<< "sinhf", y >>)
      latitudeRadians == Call(<< "atanf", sinhY >>)
      latitude == RadToDeg(latitudeRadians)
  IN  Then(<< yMin, yMax, y, sinhY, latitudeRadians >>,
           vec2(latitude, longitude))

mapCoordinatesToGeographic(normalizedMap) ==
  LET longitude == Call(<< "FMul", normalizedMap.x, FromInt(180) >>)
      yMin == mercatorProjectionMinY
      yMax == mercatorProjectionMaxY
      y == Call(<< "FAdd", yMin, Call(<< "FMul", FDiv(Call(<< "FAdd", normalizedMap.y, F_ONE >>), FromInt(2)),
                           FSub(yMax, yMin) >>) >>)
      sinhY == Call(<< "sinhf", y >>)
      latitudeRadians == Call(<< "atanf", sinhY >>)
      latitude == RadToDeg(latitudeRadians)
  IN  Then(<< y, sinhY, latitudeRadians >>, vec2(latitude, longitude))

geoToCartesian(geo) ==
  LET latitudeRad  == DegToRad(geo.x)
      longitudeRad == DegToRad(geo.y)
  IN  vec3(Call(<< "FMul", cosf(latitudeRad), Call(<< "cosf", longitudeRad >>) >>),
           Call(<< "FMul", cosf(latitudeRad), Call(<< "sinf", longitudeRad >>) >>),
           Call(<< "sinf", latitudeRad >>))

\* 0.9995f
Threshold == Call(<< "FDiv", FromInt(9995), FromInt(10000) >>)

\* A variant of sphericalLinearInterpolation that does not divide the
\* weights by sin(angle).
sphericalLinearInterpolation_undivided(startVector, endVector, interpolationFactor) ==
  LET dotProduct == Call(<< "dot", startVector, endVector >>)
      angle      == Call(<< "acosf", dotProduct >>)
  IN  IF FGt(dotProduct, Threshold)
      THEN Call(<< "normalize", mix(startVector, endVector, interpolationFactor) >>)
      ELSE Then(<< angle >>,
             Call(<< "vadd", scale(Call(<< "sinf", FMul(FSub(F_ONE, interpolationFactor), angle) >>),
                        startVector),
                  Call(<< "scale", sinf(Call(<< "FMul", interpolationFactor, angle >>)), endVector >>) >>))

\* A variant of sphericalLinearInterpolation whose test is dot >= 0.9995f.
sphericalLinearInterpolation_notStrict(startVector, endVector, interpolationFactor) ==
  LET dotProduct == Call(<< "dot", startVector, endVector >>)
      angle      == Call(<< "acosf", dotProduct >>)
      sinAngle   == Call(<< "sinf", angle >>)
  IN  IF ~Call(<< "FLt", dotProduct, Threshold >>)
      THEN Call(<< "normalize", mix(startVector, endVector, interpolationFactor) >>)
      ELSE Then(<< angle, sinAngle >>,
             Call(<< "vadd", scale(Call(<< "FDiv", sinf(Call(<< "FMul", FSub(F_ONE, interpolationFactor),
                                       angle >>)),
                             sinAngle >>), startVector),
                  Call(<< "scale", FDiv(Call(<< "sinf", FMul(interpolationFactor, angle) >>), sinAngle),
                        endVector >>) >>))

\* A variant of sphericalLinearInterpolation with a special case: for a dot
\* product below -0.9995 it returns the start vector.
sphericalLinearInterpolation_guarded(startVector, endVector, interpolationFactor) ==
  LET dotProduct == Call(<< "dot", startVector, endVector >>)
      angle      == Call(<< "acosf", dotProduct >>)
      sinAngle   == Call(<< "sinf", angle >>)
  IN  IF FGt(dotProduct, Threshold)
      THEN Call(<< "normalize", mix(startVector, endVector, interpolationFactor) >>)
      ELSE IF Call(<< "FLt", dotProduct, FNeg(Threshold) >>) THEN startVector
      ELSE Then(<< angle, sinAngle >>,
             Call(<< "vadd", scale(Call(<< "FDiv", sinf(Call(<< "FMul", FSub(F_ONE, interpolationFactor),
                                       angle >>)),
                             sinAngle >>), startVector),
                  Call(<< "scale", FDiv(Call(<< "sinf", FMul(interpolationFactor, angle) >>), sinAngle),
                        endVector >>) >>))

\* A variant of sphericalLinearInterpolation that always interpolates
\* linearly and normalizes.
sphericalLinearInterpolation_alwaysLinear(startVector, endVector, interpolationFactor) ==
  Call(<< "normalize", mix(startVector, endVector, interpolationFactor) >>)

\* A variant of sphericalLinearInterpolation with the two weights exchanged.
sphericalLinearInterpolation_swapped(startVector, endVector, interpolationFactor) ==
  LET dotProduct == Call(<< "dot", startVector, endVector >>)
      angle      == Call(<< "acosf", dotProduct >>)
      sinAngle   == Call(<< "sinf", angle >>)
  IN  IF FGt(dotProduct, Threshold)
      THEN Call(<< "normalize", mix(endVector, startVector, interpolationFactor) >>)
      ELSE Then(<< angle, sinAngle >>,
             Call(<< "vadd", scale(Call(<< "FDiv", sinf(Call(<< "FMul", interpolationFactor, angle >>)), sinAngle >>),
                        startVector),
                  Call(<< "scale", FDiv(Call(<< "sinf", FMul(FSub(F_ONE, interpolationFactor),
                                       angle) >>),
                             sinAngle), endVector >>) >>))

sphericalLinearInterpolation(startVector, endVector, interpolationFactor) ==
  LET dotProduct == Call(<< "dot", startVector, endVector >>)
      angle      == Call(<< "acosf", dotProduct >>)
      sinAngle   == Call(<< "sinf", angle >>)
  IN  IF FGt(dotProduct, Threshold)
      THEN Call(<< "normalize", mix(startVector, endVector, interpolationFactor) >>)
      ELSE Then(<< angle, sinAngle >>,
             Call(<< "vadd", scale(Call(<< "FDiv", sinf(Call(<< "FMul", FSub(F_ONE, interpolationFactor),
                                       angle >>)),
                             sinAngle >>), startVector),
                  Call(<< "scale", FDiv(Call(<< "sinf", FMul(interpolationFactor, angle) >>), sinAngle),
                        endVector >>) >>))

cartesianToGeographic(cartesianCoordinates) ==
  LET latitude  == RadToDeg(Call(<< "asinf", cartesianCoordinates.z >>))
      longitude == RadToDeg(Call(<< "atan2f", cartesianCoordinates.y,
                                   cartesianCoordinates.x >>))
  IN  vec2(latitude, longitude)

numPoints == 100

\* A variant of Path that runs from end to start (t = 1 - i / numPoints).
Path_reversed(start, end) ==
  LET startCart == Call(<< "geoToCartesian", start >>)
      endCart   == Call(<< "geoToCartesian", end >>)
  IN  [ k \in 1 .. numPoints + 1 |->
          LET t          == Call(<< "FDiv", FromInt(numPoints - (k - 1)),
                                 FromInt(numPoints) >>)
              interpCart == Call(<< "sphericalLinearInterpolation", startCart, endCart, t >>)
              interpGeo  == Call(<< "cartesianToGeographic", interpCart >>)
          IN  Then(<< interpCart, interpGeo >>,
                   Call(<< "geoToNormalizedMap", interpGeo >>)) ]

\* A variant of Path whose loop stops one step early (i < numPoints).
Path_oneShort(start, end) ==
  LET startCart == Call(<< "geoToCartesian", start >>)
      endCart   == Call(<< "geoToCartesian", end >>)
  IN  [ k \in 1 .. numPoints |->
          LET t          == Call(<< "FDiv", FromInt(k - 1), FromInt(numPoints) >>)
              interpCart == Call(<< "sphericalLinearInterpolation", startCart, endCart, t >>)
              interpGeo  == Call(<< "cartesianToGeographic", interpCart >>)
          IN  Then(<< interpCart, interpGeo >>,
                   Call(<< "geoToNormalizedMap", interpGeo >>)) ]

\* Path::Path: the vertices pushed for i = 0 .. numPoints.
Path(start, end) ==
  LET startCart == Call(<< "geoToCartesian", start >>)
      endCart   == Call(<< "geoToCartesian", end >>)
  IN  [ k \in 1 .. numPoints + 1 |->
          LET t          == Call(<< "FDiv", FromInt(k - 1), FromInt(numPoints) >>)
              interpCart == Call(<< "sphericalLinearInterpolation", startCart, endCart, t >>)
              interpGeo  == Call(<< "cartesianToGeographic", interpCart >>)
          IN  Then(<< interpCart, interpGeo >>,
                   Call(<< "geoToNormalizedMap", interpGeo >>)) ]

(***************************************************************************)
(* MyApp.cpp: the great-circle distance.                                   *)
(***************************************************************************)
\* 40000.0f / (2.0f * M_PI), computed in double, stored as float.
earthRadius == << 13037973, -11 >>

\* A variant of clampDot without the upper clamp.
clampDot_lowerOnly(dotProduct) ==
  IF Call(<< "FLt", dotProduct, FNeg(Threshold) >>) THEN FNeg(Threshold) ELSE dotProduct

\* if (dotProduct > 0.9995f) dotProduct = 0.9995f;
\* if (dotProduct < -0.9995f) dotProduct = -0.9995f;
clampDot(dotProduct) ==
  LET clampedHi == IF FGt(dotProduct, Threshold) THEN Threshold
                   ELSE dotProduct
  IN  IF Call(<< "FLt", clampedHi, FNeg(Threshold) >>) THEN FNeg(Threshold) ELSE clampedHi

\* A variant of calculateDistance that adds the start latitude to the
\* result, so that exchanging the arguments changes it.
calculateDistance_biased(start, end) ==
  LET startCart  == Call(<< "geoToCartesian", start >>)
      endCart    == Call(<< "geoToCartesian", end >>)
      dotProduct == clampDot(Call(<< "dot", startCart, endCart >>))
      angle      == Call(<< "acosf", dotProduct >>)
  IN  Then(<< dotProduct, angle >>, Call(<< "FAdd", FMul(angle, earthRadius), start.x >>))

\* A variant of calculateDistance with the mean radius of the Earth in
\* kilometres, 6371, in place of 40000 / (2 pi).
calculateDistance_radius6371(start, end) ==
  LET startCart  == Call(<< "geoToCartesian", start >>)
      endCart    == Call(<< "geoToCartesian", end >>)
      dotProduct == clampDot(Call(<< "dot", startCart, endCart >>))
      angle      == Call(<< "acosf", dotProduct >>)
  IN  Then(<< dotProduct, angle >>, Call(<< "FMul", angle, FromInt(6371) >>))

calculateDistance(start, end) ==
  LET startCart  == Call(<< "geoToCartesian", start >>)
      endCart    == Call(<< "geoToCartesian", end >>)
      dotProduct == clampDot(Call(<< "dot", startCart, endCart >>))
      angle      == Call(<< "acosf", dotProduct >>)
  IN  Then(<< dotProduct, angle >>, Call(<< "FMul", angle, earthRadius >>))

(***************************************************************************)
(* MyApp.cpp: the events' inputs and what a left press computes.           *)
(***************************************************************************)
\* enum MouseButton
MouseButton == {"MOUSE_LEFT", "MOUSE_MIDDLE", "MOUSE_RIGHT"}

\* The window is 600 x 600 (the glApp constructor call).
windowSize == 600

\* Cursor positions the events carry: the left edge, the centre, the upper
\* right quarter.
Pixels == { << 0, 300 >>, << 300, 300 >>, << 450, 150 >> }

\* Characters the keyboard events carry: 'n', 'N', 'x'.
Keys == {110, 78, 120}

\* At most MaxStations left presses and MaxHour hour advances are explored.
MaxStations == 3

MaxHour == 2

\* static_cast<int>(x) for a finite float x that fits an int.
TruncToInt(x) ==
  IF x = Zero THEN 0
  ELSE IF x[2] >= 0 THEN x[1] * Pow2(x[2])
  ELSE IF -x[2] > 30 THEN 0
  ELSE Sgn(x[1]) * (Abs(x[1]) \div Pow2(-x[2]))

\* ndcX = (2.0f * pX / 600) - 1.0f ;  ndcY = 1.0f - (2.0f * pY / 600)
ndcOfPixel(pX, pY) ==
  vec2(FSub(Call(<< "FDiv", FMul(FromInt(2), FromInt(pX)), FromInt(windowSize) >>), F_ONE),
       FSub(F_ONE, Call(<< "FDiv", FMul(FromInt(2), FromInt(pY)), FromInt(windowSize) >>)))

\* vec2 geoPos = mapCoordinatesToGeographic(vec2(ndcX, ndcY))
geoOfPixel(pX, pY) == Call(<< "mapCoordinatesToGeographic", ndcOfPixel(pX, pY) >>)

\* Path is a pure function of its arguments; its values for the positions
\* a click can produce are tabulated once.
ClickGeos == { geoOfPixel(p[1], p[2]) : p \in Pixels }

PathOfClicks == [s \in ClickGeos, e \in ClickGeos |-> Call(<< "Path", s, e >>)]

\* A variant of Station that stores the position as it is given.
Station_unprojected(pos) == [vtx |-> << pos >>]

\* Station::Station: one vertex, the projected position.
Station(pos) == [vtx |-> << Call(<< "geoToNormalizedMap", pos >>) >>]

\* new Path(start, end)
NewPath(start, end) == [vtx |-> PathOfClicks[start, end]]

\* A variant of pressedLeft that starts joining stations one press late
\* (stations.size() >= 3).
pressedLeft_oneLate(pX, pY, coords, stationCount) ==
  LET geoPos    == geoOfPixel(pX, pY)
      newCoords == Append(coords, geoPos)
      start     == newCoords[Len(newCoords) - 1]
      end       == newCoords[Len(newCoords)]
  IN  IF stationCount + 1 >= 3
      THEN Then(<< geoPos >>, [geoPos |-> geoPos, station |-> Station(geoPos), second |-> TRUE,
            path |-> NewPath(start, end),
            distance |-> Call(<< "calculateDistance", start, end >>)])
      ELSE [geoPos |-> geoPos, station |-> Station(geoPos), second |-> FALSE]

\* A variant of pressedLeft that joins the new station to the first one
\* (stationGeoCoords[0]) instead of the previous one.
pressedLeft_fromFirst(pX, pY, coords, stationCount) ==
  LET geoPos    == geoOfPixel(pX, pY)
      newCoords == Append(coords, geoPos)
      start     == newCoords[1]
      end       == newCoords[Len(newCoords)]
  IN  IF stationCount + 1 >= 2
      THEN Then(<< geoPos >>, [geoPos |-> geoPos, station |-> Station(geoPos), second |-> TRUE,
            path |-> NewPath(start, end),
            distance |-> Call(<< "calculateDistance", start, end >>)])
      ELSE [geoPos |-> geoPos, station |-> Station(geoPos), second |-> FALSE]

\* What the MOUSE_LEFT branch of onMousePressed computes, given the cursor
\* position, stationGeoCoords and stations.size() before the press: the position,
\* the new station and, from the second station on, the new path and its
\* distance.  start and end are stationGeoCoords[size - 2] and [size - 1]
\* after the push_back.
pressedLeft(pX, pY, coords, stationCount) ==
  LET geoPos    == geoOfPixel(pX, pY)
      newCoords == Append(coords, geoPos)
      start     == newCoords[Len(newCoords) - 1]
      end       == newCoords[Len(newCoords)]
  IN  IF stationCount + 1 >= 2
      THEN Then(<< geoPos >>, [geoPos |-> geoPos, station |-> Station(geoPos), second |-> TRUE,
            path |-> NewPath(start, end),
            distance |-> Call(<< "calculateDistance", start, end >>)])
      ELSE [geoPos |-> geoPos, station |-> Station(geoPos), second |-> FALSE]

(***************************************************************************)
(* The functions by name.                                                  *)
(***************************************************************************)
Call(c) ==
  CASE c[1] = "FMul" -> FMul(c[2], c[3])
    [] c[1] = "FAdd" -> FAdd(c[2], c[3])
    [] c[1] = "FDiv" -> FDiv(c[2], c[3])
    [] c[1] = "FLt" -> FLt(c[2], c[3])
    [] c[1] = "AddFinite" -> AddFinite(c[2], c[3])
    [] c[1] = "MulConst45" -> MulConst45(c[2], c[3], c[4], c[5])
    [] c[1] = "MulQ" -> MulQ(c[2], c[3])
    [] c[1] = "QRatioN" -> QRatioN(c[2], c[3])
    [] c[1] = "QRatio" -> QRatio(c[2], c[3])
    [] c[1] = "RatioToFloatE" -> RatioToFloatE(c[2], c[3], c[4])
    [] c[1] = "SinPoly" -> SinPoly(c[2], c[3])
    [] c[1] = "CosPoly" -> CosPoly(c[2], c[3])
    [] c[1] = "SinK" -> SinK(c[2])
    [] c[1] = "CosK" -> CosK(c[2])
    [] c[1] = "SinQ" -> SinQ(c[2])
    [] c[1] = "CosQ" -> CosQ(c[2])
    [] c[1] = "sinf" -> sinf(c[2])
    [] c[1] = "cosf" -> cosf(c[2])
    [] c[1] = "tanf" -> tanf(c[2])
    [] c[1] = "AtanPoly" -> AtanPoly(c[2], c[3])
    [] c[1] = "AtanK" -> AtanK(c[2])
    [] c[1] = "AtanUnit" -> AtanUnit(c[2])
    [] c[1] = "AtanRatio" -> AtanRatio(c[2], c[3])
    [] c[1] = "FloatRatioQ" -> FloatRatioQ(c[2], c[3])
    [] c[1] = "AtanAbs" -> AtanAbs(c[2], c[3])
    [] c[1] = "atanf" -> atanf(c[2])
    [] c[1] = "atan2f" -> atan2f(c[2], c[3])
    [] c[1] = "QSqrtN" -> QSqrtN(c[2])
    [] c[1] = "QSqrt" -> QSqrt(c[2])
    [] c[1] = "sqrtf" -> sqrtf(c[2])
    [] c[1] = "CoQ" -> CoQ(c[2])
    [] c[1] = "asinf" -> asinf(c[2])
    [] c[1] = "acosf" -> acosf(c[2])
    [] c[1] = "LogPoly" -> LogPoly(c[2], c[3])
    [] c[1] = "logf" -> logf(c[2])
    [] c[1] = "SinhPoly" -> SinhPoly(c[2], c[3])
    [] c[1] = "Expm1Poly" -> Expm1Poly(c[2], c[3])
    [] c[1] = "Expm1K" -> Expm1K(c[2])
    [] c[1] = "sinhf" -> sinhf(c[2])
    [] c[1] = "dot" -> dot(c[2], c[3])
    [] c[1] = "scale" -> scale(c[2], c[3])
    [] c[1] = "vadd" -> vadd(c[2], c[3])
    [] c[1] = "mix" -> mix(c[2], c[3], c[4])
    [] c[1] = "normalize" -> normalize(c[2])
    [] c[1] = "mercatorProjection" -> mercatorProjection(c[2])
    [] c[1] = "geoToNormalizedMap" -> geoToNormalizedMap(c[2])
    [] c[1] = "mapCoordinatesToGeographic" -> mapCoordinatesToGeographic(c[2])
    [] c[1] = "geoToCartesian" -> geoToCartesian(c[2])
    [] c[1] = "sphericalLinearInterpolation" -> sphericalLinearInterpolation(c[2], c[3], c[4])
    [] c[1] = "cartesianToGeographic" -> cartesianToGeographic(c[2])
    [] c[1] = "calculateDistance" -> calculateDistance(c[2], c[3])
    [] c[1] = "Path" -> Path(c[2], c[3])
    [] c[1] = "pressedLeft" -> pressedLeft(c[2], c[3], c[4], c[5])

\* The objects of the OpenGL context are named by their owner: the i-th
\* station's or path's Geometry has one vertex array and one buffer, the
\* map's own buffers are vboPos (1) and vboTex (2).  Vertex array 0 is no
\* object.
NoObject == << "none", 0 >>

\* Geometry::Geometry() followed by Geometry::updateGPU(), which the
\* constructors of Station and Path run, and Geometry::Bind(), which
\* DrawPath and DrawStation run: the object's vertex array and buffer are
\* the bound ones afterwards.
GeometryBound(kind, i) == << << kind, i >>, << kind, i >> >>

\* The context after the calls that leave bound == << vertex array, buffer >>.
Bind(bound) == glVertexArray' = bound[1] /\ glArrayBuffer' = bound[2]

\* The state when the message loop starts: the vectors are empty, main()
\* has called onInitialization (hourOffset = 0), screenRefresh is true and
\* nothing has been drawn.  Map::Map has left vertex array 0 and vboTex bound.
AppInit ==
  /\ stations = << >>
  /\ stationGeoCoords = << >>
  /\ paths = << >>
  /\ distances = << >>
  /\ hourOffset = 0
  /\ screenRefresh = TRUE
  /\ frame = << >>
  /\ console = << >>
  /\ leftPresses = 0
  /\ glVertexArray = NoObject
  /\ glArrayBuffer = << "map", 2 >>

\* No call is made, or the call has not returned: fnResult holds the returned
\* value as its only element once it has.
NoCall == << >>

\* A variant of onMousePressed that puts the new station and position in
\* front of the earlier ones.
onMousePressed_inFront(but, pX, pY) ==
  /\ but = "MOUSE_LEFT" => leftPresses < MaxStations
  /\ IF but = "MOUSE_LEFT"
     THEN \E computed \in
               { Call(<< "pressedLeft", pX, pY, stationGeoCoords, Len(stations) >>) } :
            /\ stations' = << computed.station >> \o stations
            /\ stationGeoCoords' = << computed.geoPos >> \o stationGeoCoords
            /\ IF computed.second
               THEN /\ paths' = Append(paths, computed.path)
                    /\ distances' = Append(distances, computed.distance)
                    /\ console' =
                         Append(console, TruncToInt(computed.distance))
               ELSE UNCHANGED << paths, distances, console >>
            /\ Bind(IF computed.second
                    THEN GeometryBound("path", Len(paths) + 1)
                    ELSE GeometryBound("station", Len(stations) + 1))
            /\ screenRefresh' = TRUE
            /\ leftPresses' = leftPresses + 1
            /\ UNCHANGED << hourOffset, frame >>
     ELSE UNCHANGED << appVars, glVars >>
  /\ UNCHANGED << fnVars, decodeVars >>

\* A variant of MyApp_onMousePressed that does not look at the button.
MyApp_onMousePressed_anyButton(but, pX, pY) ==
  /\ leftPresses < MaxStations
  /\ \E computed \in
          { Call(<< "pressedLeft", pX, pY, stationGeoCoords, Len(stations) >>) } :
       /\ stations' = Append(stations, computed.station)
       /\ stationGeoCoords' = Append(stationGeoCoords, computed.geoPos)
       /\ IF computed.second
          THEN /\ paths' = Append(paths, computed.path)
               /\ distances' = Append(distances, computed.distance)
               /\ console' = Append(console, TruncToInt(computed.distance))
          ELSE UNCHANGED << paths, distances, console >>
       /\ Bind(IF computed.second
               THEN GeometryBound("path", Len(paths) + 1)
               ELSE GeometryBound("station", Len(stations) + 1))
       /\ screenRefresh' = TRUE
       /\ leftPresses' = leftPresses + 1
       /\ UNCHANGED << hourOffset, frame >>

\* MyApp::onMousePressed: what it does to the application and the context.
MyApp_onMousePressed(but, pX, pY) ==
  /\ but = "MOUSE_LEFT" => leftPresses < MaxStations
  /\ IF but = "MOUSE_LEFT"
     THEN \E computed \in
               { Call(<< "pressedLeft", pX, pY, stationGeoCoords, Len(stations) >>) } :
            /\ stations' = Append(stations, computed.station)
            /\ stationGeoCoords' = Append(stationGeoCoords, computed.geoPos)
            /\ IF computed.second
               THEN /\ paths' = Append(paths, computed.path)
                    /\ distances' = Append(distances, computed.distance)
                    /\ console' =
                         Append(console, TruncToInt(computed.distance))
               ELSE UNCHANGED << paths, distances, console >>
            /\ Bind(IF computed.second
                    THEN GeometryBound("path", Len(paths) + 1)
                    ELSE GeometryBound("station", Len(stations) + 1))
            /\ screenRefresh' = TRUE
            /\ leftPresses' = leftPresses + 1
            /\ UNCHANGED << hourOffset, frame >>
     ELSE UNCHANGED << appVars, glVars >>

\* mouse_button_callback on a press: pApp->onMousePressed(...).
onMousePressed(but, pX, pY) ==
  MyApp_onMousePressed(but, pX, pY) /\ UNCHANGED << fnVars, decodeVars >>

\* glApp::onMouseReleased and glApp::onMouseMotion, which MyApp does not
\* override: empty bodies.
glApp_onMouseReleased(but, pX, pY) == UNCHANGED << appVars, glVars >>

glApp_onMouseMotion(pX, pY) == UNCHANGED << appVars, glVars >>

\* mouse_button_callback on a release; cursor_position_callback.
onMouseReleased(but, pX, pY) ==
  glApp_onMouseReleased(but, pX, pY) /\ UNCHANGED << fnVars, decodeVars >>

onMouseMotion(pX, pY) ==
  glApp_onMouseMotion(pX, pY) /\ UNCHANGED << fnVars, decodeVars >>

\* A variant of onKeyboard that advances the hour on every key.
onKeyboard_anyKey(key) ==
  /\ hourOffset < MaxHour
  /\ hourOffset' = hourOffset + 1
  /\ screenRefresh' = TRUE
  /\ UNCHANGED << stations, stationGeoCoords, paths, distances, frame,
                  console, leftPresses >>
  /\ UNCHANGED << glVars, fnVars, decodeVars >>

\* MyApp::onKeyboard, called by character_callback.
onKeyboard(key) ==
  /\ (key = 110 \/ key = 78) => hourOffset < MaxHour
  /\ IF key = 110 \/ key = 78
     THEN /\ hourOffset' = hourOffset + 1
          /\ screenRefresh' = TRUE
          /\ UNCHANGED << stations, stationGeoCoords, paths, distances, frame,
                          console, leftPresses >>
     ELSE UNCHANGED appVars
  /\ UNCHANGED << glVars, fnVars, decodeVars >>

\* window_refresh_callback
onWindowRefresh ==
  /\ screenRefresh' = TRUE
  /\ UNCHANGED << stations, stationGeoCoords, paths, distances, hourOffset,
                  frame, console, leftPresses >>
  /\ UNCHANGED << glVars, fnVars, decodeVars >>

\* A variant of drawCalls that draws the stations before the paths.
drawCalls_stationsFirst ==
  << [kind |-> "map", hour |-> hourOffset] >>
  \o [i \in 1 .. Len(stations) |->
        [kind |-> "station", vtx |-> stations[i].vtx]]
  \o [i \in 1 .. Len(paths) |-> [kind |-> "path", vtx |-> paths[i].vtx]]

\* MyApp::onDisplay: the map, then every path, then every station.
drawCalls ==
  << [kind |-> "map", hour |-> hourOffset] >>
  \o [i \in 1 .. Len(paths) |-> [kind |-> "path", vtx |-> paths[i].vtx]]
  \o [i \in 1 .. Len(stations) |->
        [kind |-> "station", vtx |-> stations[i].vtx]]

\* What onDisplay leaves bound: DrawMap ends with glBindVertexArray(0) and
\* binds no buffer; every path and then every station binds its own.
boundAfterDisplay ==
  IF Len(stations) > 0 THEN GeometryBound("station", Len(stations))
  ELSE IF Len(paths) > 0 THEN GeometryBound("path", Len(paths))
  ELSE << NoObject, glArrayBuffer >>

\* A variant of mainLoopDisplay that leaves screenRefresh set.
mainLoopDisplay_flagKept ==
  /\ screenRefresh
  /\ frame' = drawCalls
  /\ Bind(boundAfterDisplay)
  /\ UNCHANGED << stations, stationGeoCoords, paths, distances, hourOffset,
                  screenRefresh, console, leftPresses >>
  /\ UNCHANGED << fnVars, decodeVars >>

\* if (screenRefresh) { onDisplay(); swap; screenRefresh = false; }: what
\* it does to the application and the context.
displayIfRefresh ==
  /\ screenRefresh
  /\ frame' = drawCalls
  /\ Bind(boundAfterDisplay)
  /\ screenRefresh' = FALSE
  /\ UNCHANGED << stations, stationGeoCoords, paths, distances, hourOffset,
                  console, leftPresses >>

\* The body of the message loop after the events.
mainLoopDisplay == displayIfRefresh /\ UNCHANGED << fnVars, decodeVars >>

\* Map::decodeImage is not running.
DecodeIdle ==
  /\ encodedData = << >>
  /\ byteIndex = 0
  /\ pixelIndex = 0
  /\ pixels = << >>
  /\ lastWritten = -1
  /\ decodePhase = "idle"

Init ==
  /\ AppInit
  /\ DecodeIdle
  /\ fnOrigin = NoCall
  /\ fnCall = NoCall
  /\ fnResult = NoCall

Next ==
  \/ \E but \in MouseButton, p \in Pixels : onMousePressed(but, p[1], p[2])
  \/ \E but \in MouseButton, p \in Pixels : onMouseReleased(but, p[1], p[2])
  \/ \E p \in Pixels : onMouseMotion(p[1], p[2])
  \/ \E key \in Keys : onKeyboard(key)
  \/ onWindowRefresh
  \/ mainLoopDisplay

Spec == Init /\ [][Next]_vars

\* while (!glfwWindowShouldClose(window)) { glfwPollEvents(); ...
\* if (screenRefresh) { onDisplay(); ... } }: every iteration of the loop
\* reaches the test of screenRefresh after the events it has polled, so a
\* display that stays due is made.
LiveSpec == Spec /\ WF_vars(mainLoopDisplay)

(***************************************************************************)
(* The mouse callbacks and the display of the message loop, with the call  *)
(* the framework made last on record in fnCall: the handler's name and,    *)
(* for a button event, the button.                                         *)
(***************************************************************************)
\* The framework has called the handler.
Called(call) ==
  /\ fnCall' = call
  /\ UNCHANGED << fnOrigin, fnResult >>
  /\ UNCHANGED decodeVars

EventNext ==
  \/ \E but \in MouseButton, p \in Pixels :
       /\ MyApp_onMousePressed(but, p[1], p[2])
       /\ Called(<< "onMousePressed", but >>)
  \/ \E but \in MouseButton, p \in Pixels :
       /\ glApp_onMouseReleased(but, p[1], p[2])
       /\ Called(<< "onMouseReleased", but >>)
  \/ \E p \in Pixels :
       /\ glApp_onMouseMotion(p[1], p[2])
       /\ Called(<< "onMouseMotion" >>)
  \/ displayIfRefresh /\ Called(<< "onDisplay" >>)

EventSpec == Init /\ [][EventNext]_vars

(***************************************************************************)
(* The functions of Path.cpp and calculateDistance on their own: one call  *)
(* of one function on arguments drawn from the sets below.                 *)
(***************************************************************************)
\* A float given in hundredths, as Path::Path computes t = i / 100.
Hundredths(n) == Call(<< "FDiv", FromInt(n), FromInt(100) >>)

\* A geographic position: the latitude in hundredths of a degree, the
\* longitude in whole degrees.
geoOf(p) == vec2(Hundredths(p[1]), FromInt(p[2]))

\* Latitudes (hundredths of a degree) and longitudes of the positions that
\* are projected and projected back.
ProjectedLatitudes ==
  { -8900, -8501, -8500, -8499, -8468, -8455, -8433, -8398, -6000, -3500, -1,
    0, 1, 1000, 4750, 8398, 8499, 8500, 8501, 8900 }

ProjectedLongitudes == { -180, 19 }

\* Pairs of positions: a quarter and a half of the equator, one position
\* twice, two close positions, two antipodal pairs, positions on both sides
\* of the antimeridian, a far pair, two positions across the pole, a pair
\* a degree and a half apart, a pair a hundredth and a pair a tenth of a
\* degree from antipodal, a pair whose dot product lies between 0.999 and
\* 0.9995, and a pair whose dot product is the float 0.9995f itself.
GeoPairs ==
  { << << 0, 0 >>, << 0, 90 >> >>,
    << << 0, 0 >>, << 0, 180 >> >>,
    << << 4750, 19 >>, << 4750, 19 >> >>,
    << << 4750, 19 >>, << 4800, 20 >> >>,
    << << -3500, -150 >>, << 3500, 30 >> >>,
    << << 1000, 20 >>, << -1000, -160 >> >>,
    << << 0, 180 >>, << 1000, -180 >> >>,
    << << 4750, 19 >>, << -3390, 151 >> >>,
    << << 8500, 0 >>, << 8500, 180 >> >>,
    << << 0, 0 >>, << 150, 1 >> >>,
    << << 1, 0 >>, << 0, 180 >> >>,
    << << 10, 0 >>, << 0, 180 >> >>,
    << << 0, 0 >>, << 200, 1 >> >>,
    << << 5000, 0 >>, << 4831, 1 >> >> }

\* Interpolation factors, in hundredths.
Factors == { 0, 25, 50, 100 }

\* Columns and rows of the window where the left button is pressed: the
\* edges, the pixels next to them, the centre and the quarters, and a row
\* near the lower edge.
ClickColumns == { 0, 1, 300, 599 }

ClickRows == { 0, 1, 150, 300, 450, 589, 599 }

\* The argument of a call: sphericalLinearInterpolation takes the Cartesian
\* images of two positions and a factor, mapCoordinatesToGeographic the
\* normalized coordinates of a pixel, the others take positions.
Argument(name, i, v) ==
  IF name = "sphericalLinearInterpolation"
  THEN (IF i = 3 THEN Hundredths(v) ELSE Call(<< "geoToCartesian", geoOf(v) >>))
  ELSE IF name = "mapCoordinatesToGeographic" THEN ndcOfPixel(v[1], v[2])
  ELSE geoOf(v)

Marshal(c) ==
  << c[1] >> \o [i \in 1 .. Len(c) - 1 |-> Argument(c[1], i, c[i + 1])]

FnInputs ==
  { << "geoToNormalizedMap", << lat, lon >> >> :
      lat \in ProjectedLatitudes, lon \in ProjectedLongitudes }
  \cup { << name, pair[1], pair[2] >> :
           name \in { "calculateDistance", "Path" }, pair \in GeoPairs }
  \cup { << "sphericalLinearInterpolation", pair[1], pair[2], k >> :
           pair \in GeoPairs, k \in Factors }
  \cup { << "mapCoordinatesToGeographic", << pX, pY >> >> :
           pX \in ClickColumns, pY \in ClickRows }

FnCalls == { Marshal(c) : c \in FnInputs }

FnInit ==
  /\ AppInit
  /\ DecodeIdle
  /\ fnCall \in FnCalls
  /\ fnOrigin = fnCall
  /\ fnResult = NoCall

\* The call is made and returns.  Path::Path ends with updateGPU(), after
\* the Geometry constructor: the new path's vertex array and buffer are
\* the bound ones; the other functions touch nothing but their result.
ApplyFn ==
  /\ fnResult = NoCall
  /\ fnResult' = << Call(fnCall) >>
  /\ Bind(IF fnCall[1] = "Path" THEN GeometryBound("path", 1) ELSE glVars)
  /\ UNCHANGED << fnOrigin, fnCall >>
  /\ UNCHANGED << appVars, decodeVars >>

\* The projection of a position is handed to the inverse projection.
ProjectBack ==
  /\ fnCall[1] = "geoToNormalizedMap"
  /\ fnResult # NoCall
  /\ fnCall' = << "mapCoordinatesToGeographic", fnResult[1] >>
  /\ fnResult' = NoCall
  /\ UNCHANGED fnOrigin
  /\ UNCHANGED << appVars, glVars, decodeVars >>

\* stations.push_back(new Station(geoPos)) for the geoPos that
\* mapCoordinatesToGeographic(vec2(ndcX, ndcY)) has returned: the station
\* is constructed, and its vertex array and buffer are the bound ones.
NewStation ==
  /\ fnCall[1] = "mapCoordinatesToGeographic"
  /\ fnOrigin = fnCall
  /\ fnResult # NoCall
  /\ fnCall' = << "Station", fnResult[1] >>
  /\ fnResult' = << Station(fnResult[1]) >>
  /\ Bind(GeometryBound("station", 1))
  /\ UNCHANGED fnOrigin
  /\ UNCHANGED << appVars, decodeVars >>

FnNext == ApplyFn \/ ProjectBack \/ NewStation

FnSpec == FnInit /\ [][FnNext]_vars

(***************************************************************************)
(* Map.cpp: Map::decodeImage, one step per encoded byte.                   *)
(***************************************************************************)
\* std::vector<vec3> pixels(4096): the image is 64 x 64.
pixelCount == 4096

\* vec3 colorPalette[4], the colours by name: (1, 1, 1), (0, 0, 1),
\* (0, 1, 0) and (0, 0, 0).
colorPalette == << "white", "blue", "green", "black" >>

\* vec3(), which is (0, 0, 0): what std::vector<vec3> pixels(4096) holds at
\* first.
defaultPixel == "black"

\* A variant of runLengthOf that takes the six bits as the length itself.
runLengthOf_zeroBased(encodedByte) == (encodedByte \div 4) % 64

\* int runLength = ((encodedByte >> 2) & 0x3F) + 1
runLengthOf(encodedByte) == ((encodedByte \div 4) % 64) + 1

\* int colorIndex = encodedByte & 0x03
colorIndexOf(encodedByte) == encodedByte % 4

\* A variant of runWrites without the test pixelIndex < 4096.
runWrites_unguarded(runLength, index) == runLength

\* for (int i = 0; i < runLength && pixelIndex < 4096; ++i): the number of
\* times the body runs when pixelIndex is index at the start.
runWrites(runLength, index) ==
  IF index >= pixelCount THEN 0
  ELSE IF index + runLength <= pixelCount THEN runLength
  ELSE pixelCount - index

\* pixels after pixels[pixelIndex++] = color has run count times from index.
\* The vector has 4096 elements: an index past its end is not one of them.
writeRun(image, index, count, color) ==
  [ k \in 1 .. Len(image) |->
      IF index <= k - 1 /\ k - 1 < index + count THEN color ELSE image[k] ]

\* n copies of the byte b.
Repeat(b, n) == [ k \in 1 .. n |-> b ]

\* The encoded inputs: none; one run of 2; 64 runs of 64, which fill the
\* image exactly; 65 runs of 64, one too many; 63 runs of 64 and two runs
\* of 40, the second of which crosses the end; 10 runs of 1.
EncodedInputs ==
  { << >>, << 5 >>, Repeat(253, 64), Repeat(254, 65),
    Repeat(252, 63) \o << 159, 158 >>, Repeat(2, 10) }

DecodeInit ==
  /\ AppInit
  /\ fnOrigin = NoCall
  /\ fnCall = NoCall
  /\ fnResult = NoCall
  /\ encodedData \in EncodedInputs
  /\ byteIndex = 0
  /\ pixelIndex = 0
  /\ pixels = [ k \in 1 .. pixelCount |-> defaultPixel ]
  /\ lastWritten = -1
  /\ decodePhase = "runs"

\* One iteration of for (unsigned char encodedByte : encodedData).
decodeByte ==
  /\ decodePhase = "runs"
  /\ byteIndex < Len(encodedData)
  /\ \E count \in { runWrites(runLengthOf(encodedData[byteIndex + 1]),
                               pixelIndex) } :
       /\ pixels' = writeRun(pixels, pixelIndex, count,
                             colorPalette[colorIndexOf(
                               encodedData[byteIndex + 1]) + 1])
       /\ pixelIndex' = pixelIndex + count
       /\ lastWritten' = IF count > 0 THEN pixelIndex + count - 1
                         ELSE lastWritten
  /\ byteIndex' = byteIndex + 1
  /\ UNCHANGED << encodedData, decodePhase >>
  /\ UNCHANGED << appVars, glVars, fnVars >>

\* The range-for loop ends.
endOfData ==
  /\ decodePhase = "runs"
  /\ byteIndex = Len(encodedData)
  /\ decodePhase' = "fill"
  /\ UNCHANGED << encodedData, byteIndex, pixelIndex, pixels, lastWritten >>
  /\ UNCHANGED << appVars, glVars, fnVars >>

\* while (pixelIndex < 4096) pixels[pixelIndex++] = colorPalette[3];
\* return pixels;
fillAndReturn ==
  /\ decodePhase = "fill"
  /\ IF pixelIndex < pixelCount
     THEN /\ pixels' = writeRun(pixels, pixelIndex, pixelCount - pixelIndex,
                                colorPalette[4])
          /\ pixelIndex' = pixelCount
          /\ lastWritten' = pixelCount - 1
     ELSE UNCHANGED << pixels, pixelIndex, lastWritten >>
  /\ decodePhase' = "returned"
  /\ UNCHANGED << encodedData, byteIndex >>
  /\ UNCHANGED << appVars, glVars, fnVars >>

DecodeNext == decodeByte \/ endOfData \/ fillAndReturn

DecodeSpec == DecodeInit /\ [][DecodeNext]_vars

(***************************************************************************)
(* Properties of the functions, stated of FnSpec.                          *)
(***************************************************************************)
\* The call fnCall of the function name has returned.
Returned(name) == fnCall[1] = name /\ fnResult # NoCall

\* x and y are finite and differ by no more than tol.
Within(x, y, tol) ==
  IsFinite(x) /\ IsFinite(y) /\ ~FGt(FAbs(FSub(x, y)), tol)

Within2(u, v, tol) == Within(u.x, v.x, tol) /\ Within(u.y, v.y, tol)

Within3(u, v, tol) ==
  Within(u.x, v.x, tol) /\ Within(u.y, v.y, tol) /\ Within(u.z, v.z, tol)

\* FLT_EPSILON = 2^-23, and the tolerances 1e-4 and 1e-3.
FLT_EPSILON == << 8388608, -46 >>

Tol1e4 == Call(<< "FDiv", FromInt(1), FromInt(10000) >>)

Tol1e3 == Call(<< "FDiv", FromInt(1), FromInt(1000) >>)

\* C1: every Path that has been built holds exactly 101 vertices, whichever
\* branch of the interpolation was taken and whether or not its values are
\* finite.
C1_PathPointCount == Returned("Path") => Len(fnResult[1]) = 101

\* A path of 101 vertices none of which is finite has been built.
C1_Witness ==
  /\ Returned("Path")
  /\ Len(fnResult[1]) = 101
  /\ \A k \in 1 .. 101 : IsNaN(fnResult[1][k].x)

\* The interpolation has returned for factor 0 or 1: the vector it must give.
SlerpEndpoint == IF fnCall[4] = Zero THEN fnCall[2] ELSE fnCall[3]

SlerpAtEnd ==
  Returned("sphericalLinearInterpolation") /\ fnCall[4] \in { Zero, F_ONE }

C3_DistanceSymmetric ==
  Returned("calculateDistance")
    => /\ IsFinite(fnResult[1])
       /\ fnResult[1] = Call(<< "calculateDistance", fnCall[3], fnCall[2] >>)

\* The distance between two different latitudes has been computed.
C3_Witness ==
  /\ Returned("calculateDistance")
  /\ fnCall[2].x # fnCall[3].x
  /\ fnResult[1] = Call(<< "calculateDistance", fnCall[3], fnCall[2] >>)

\* C4, as stated: the distance from a position to itself is 0, within a
\* kilometre.
C4_DistanceZero ==
  (Returned("calculateDistance") /\ fnCall[2] = fnCall[3])
    => Within(fnResult[1], Zero, F_ONE)

\* C5, as stated: from (lat 0, lon 0) to (lat 0, lon 180) the distance is
\* 20000 km, within a kilometre.
C5_HalfEquator ==
  (/\ Returned("calculateDistance")
   /\ fnCall[2] = geoOf(<< 0, 0 >>)
   /\ fnCall[3] = geoOf(<< 0, 180 >>))
    => Within(fnResult[1], FromInt(20000), F_ONE)

\* C6: from (lat 0, lon 0) to (lat 0, lon 90) the distance is 10000 km,
\* within a kilometre.
C6_QuarterEquator ==
  (/\ Returned("calculateDistance")
   /\ fnCall[2] = geoOf(<< 0, 0 >>)
   /\ fnCall[3] = geoOf(<< 0, 90 >>))
    => Within(fnResult[1], FromInt(10000), F_ONE)

\* The distance of a quarter of the equator has been computed.
C6_Witness ==
  /\ Returned("calculateDistance")
  /\ fnOrigin = << "calculateDistance", geoOf(<< 0, 0 >>), geoOf(<< 0, 90 >>) >>
  /\ Within(fnResult[1], FromInt(10000), F_ONE)

\* A position of the band, |latitude| <= 85 and |longitude| <= 180, has
\* been projected and projected back.
RoundTripDone ==
  /\ Returned("mapCoordinatesToGeographic")
  /\ fnOrigin[1] = "geoToNormalizedMap"
  /\ ~FGt(FAbs(fnOrigin[2].x), FromInt(85))
  /\ ~FGt(FAbs(fnOrigin[2].y), FromInt(180))

\* C7, as stated: projecting a position of the band and projecting the
\* result back gives the position within 1e-4 in latitude and longitude.
C7_RoundTrip1e4 == RoundTripDone => Within2(fnResult[1], fnOrigin[2], Tol1e4)

\* C7, amended: projecting a position of the band and projecting the
\* result back gives the position within 1e-3 in latitude and longitude.
C7_RoundTrip == RoundTripDone => Within2(fnResult[1], fnOrigin[2], Tol1e3)

\* A position near the lower edge of the band has come back more than 1e-4
\* but less than 1e-3 away.
C7_Witness ==
  /\ RoundTripDone
  /\ Within2(fnResult[1], fnOrigin[2], Tol1e3)
  /\ ~Within2(fnResult[1], fnOrigin[2], Tol1e4)

\* C8, as stated: for a pair of positions that is not antipodal (the dot
\* product of their Cartesian images is above -0.9995) the first vertex of
\* the path is the projection of start and the last that of end, within 1e-3.
C8_PathEndpoints ==
  (/\ Returned("Path")
   /\ FGt(Call(<< "dot", geoToCartesian(fnCall[2]), Call(<< "geoToCartesian", fnCall[3] >>) >>),
          FNeg(Threshold)))
    => /\ Within2(fnResult[1][1], Call(<< "geoToNormalizedMap", fnCall[2] >>), Tol1e3)
       /\ Within2(fnResult[1][numPoints + 1], Call(<< "geoToNormalizedMap", fnCall[3] >>),
                  Tol1e3)

\* The length of a vector, in float.
norm(v) == Call(<< "sqrtf", dot(v, v) >>)

\* 0.999, and the dot product of the two vectors the interpolation was
\* called with.
Dot999 == Call(<< "FDiv", FromInt(999), FromInt(1000) >>)

SlerpDot == Call(<< "dot", fnCall[2], fnCall[3] >>)

\* C14, as stated: for unit vectors a and b with dot(a, b) < 0.999 that are
\* not antipodal (their dot product, as computed, is above -1) and every
\* factor, the interpolated vector has length 1 within 1e-3.
C14_SlerpUnitNormAll ==
  (/\ Returned("sphericalLinearInterpolation")
   /\ Call(<< "FLt", SlerpDot, Dot999 >>)
   /\ FGt(SlerpDot, FromInt(-1)))
    => Within(norm(fnResult[1]), F_ONE, Tol1e3)

\* C14, amended: for unit vectors a and b with -0.999 < dot(a, b) < 0.999
\* and every factor, the interpolated vector has length 1 within 1e-3.
C14_SlerpUnitNorm ==
  (/\ Returned("sphericalLinearInterpolation")
   /\ Call(<< "FLt", SlerpDot, Dot999 >>)
   /\ FGt(SlerpDot, FNeg(Dot999)))
    => Within(norm(fnResult[1]), F_ONE, Tol1e3)

\* Halfway between two vectors more than a right angle apart the
\* interpolated vector has length 1 within 1e-3.
C14_Witness ==
  /\ Returned("sphericalLinearInterpolation")
  /\ fnCall[4] = Hundredths(50)
  /\ Call(<< "FLt", SlerpDot, Zero >>)
  /\ FGt(SlerpDot, FNeg(Dot999))
  /\ Within(norm(fnResult[1]), F_ONE, Tol1e3)

\* normalize(mix(a, b, t)), and the weighted sum
\* (sin((1 - t) angle) / sin(angle)) a + (sin(t angle) / sin(angle)) b
\* with angle = acos(dot(a, b)).
LinearThenNormalize(a, b, t) == Call(<< "normalize", mix(a, b, t) >>)

WeightedSum(a, b, t) ==
  LET angle == Call(<< "acosf", dot(a, b) >>)
      sinAngle == Call(<< "sinf", angle >>)
  IN  Then(<< angle, sinAngle >>,
           Call(<< "vadd", scale(Call(<< "FDiv", sinf(Call(<< "FMul", FSub(F_ONE, t), angle >>)), sinAngle >>), a),
                Call(<< "scale", FDiv(Call(<< "sinf", FMul(t, angle) >>), sinAngle), b >>) >>))

\* C15: the interpolation returns normalize(mix(a, b, t)) exactly when
\* dot(a, b) > 0.9995f, and the weighted sum otherwise, a dot product equal
\* to 0.9995f and every smaller one included.
C15_BranchChoice ==
  Returned("sphericalLinearInterpolation")
    => fnResult[1] =
         IF FGt(SlerpDot, Threshold)
         THEN LinearThenNormalize(fnCall[2], fnCall[3], fnCall[4])
         ELSE WeightedSum(fnCall[2], fnCall[3], fnCall[4])

\* For a dot product equal to 0.9995f the weighted sum has been returned,
\* which is not what the linear branch gives.
C15_Witness ==
  /\ Returned("sphericalLinearInterpolation")
  /\ SlerpDot = Threshold
  /\ fnResult[1] = WeightedSum(fnCall[2], fnCall[3], fnCall[4])
  /\ fnResult[1] # LinearThenNormalize(fnCall[2], fnCall[3], fnCall[4])

\* The dot product calculateDistance computes, before the clamps.
DistanceDot == Call(<< "dot", geoToCartesian(fnCall[2]), Call(<< "geoToCartesian", fnCall[3] >>) >>)

\* C16: for every pair of (finite) positions the value calculateDistance
\* passes to acosf lies in [-0.9995, 0.9995], and the distance returned,
\* acosf of it times the radius, is a number that is not negative.
C16_ClampedDot ==
  Returned("calculateDistance")
    => /\ IsFinite(clampDot(DistanceDot))
       /\ ~FGt(clampDot(DistanceDot), Threshold)
       /\ ~Call(<< "FLt", clampDot(DistanceDot), FNeg(Threshold) >>)
       /\ fnResult[1] = Call(<< "FMul", acosf(clampDot(DistanceDot)), earthRadius >>)
       /\ IsFinite(fnResult[1])
       /\ ~Call(<< "FLt", fnResult[1], Zero >>)

\* A distance has been computed from a dot product below -1, which the
\* clamp brought up to -0.9995.
C16_Witness ==
  /\ Returned("calculateDistance")
  /\ Call(<< "FLt", DistanceDot, FromInt(-1) >>)
  /\ clampDot(DistanceDot) = FNeg(Threshold)
  /\ FGt(fnResult[1], Zero)

\* The Cartesian images of the antipodal positions (lat 10, lon 20) and
\* (lat -10, lon -160).
AntipodalA == Call(<< "geoToCartesian", geoOf(<< 1000, 20 >>) >>)

AntipodalB == Call(<< "geoToCartesian", geoOf(<< -1000, -160 >>) >>)

\* C17: for the antipodal pair (lat 10, lon 20), (lat -10, lon -160) the
\* interpolation makes no special case: it returns the weighted sum, whose
\* divisor sin(angle) is within 1e-3 of 0, and strictly between the ends the
\* result is NaN or a vector whose length is not 1 within 1e-3; the path of
\* the pair is built as any other, with 101 vertices.
C17_AntipodalUnhandled ==
  /\ (/\ Returned("sphericalLinearInterpolation")
      /\ fnCall[2] = AntipodalA
      /\ fnCall[3] = AntipodalB)
       => /\ ~FGt(SlerpDot, Threshold)
          /\ Within(Call(<< "sinf", acosf(SlerpDot) >>), Zero, Tol1e3)
          /\ fnResult[1] = WeightedSum(fnCall[2], fnCall[3], fnCall[4])
          /\ fnCall[4] \notin { Zero, F_ONE }
               => ~Within(norm(fnResult[1]), F_ONE, Tol1e3)
  /\ (/\ Returned("Path")
      /\ fnCall[2] = geoOf(<< 1000, 20 >>)
      /\ fnCall[3] = geoOf(<< -1000, -160 >>))
       => Len(fnResult[1]) = numPoints + 1

\* Halfway between the antipodal pair a vector shorter than 1e-3 has been
\* returned.
C17_Witness ==
  /\ Returned("sphericalLinearInterpolation")
  /\ fnCall[2] = AntipodalA
  /\ fnCall[3] = AntipodalB
  /\ fnCall[4] = Hundredths(50)
  /\ Call(<< "FLt", norm(fnResult[1]), Tol1e3 >>)

\* The interpolated vector of step i of Path(start, end), and its vertex.
InterpCart(start, end, i) ==
  Call(<< "sphericalLinearInterpolation", geoToCartesian(start), Call(<< "geoToCartesian", end >>),
                               Hundredths(i) >>)

VertexAt(start, end, i) ==
  Call(<< "geoToNormalizedMap", cartesianToGeographic(InterpCart(start, end, i)) >>)

\* C18: vertex i of a path, i = 0 .. 100, is the projection of the vector
\* interpolated at t = i / 100; the factors start at 0, end at 1 and
\* increase strictly, so no vertex is skipped, repeated or out of order.
C18_VerticesInOrder ==
  Returned("Path")
    => /\ Len(fnResult[1]) = numPoints + 1
       /\ \A i \in 0 .. numPoints :
            fnResult[1][i + 1] = VertexAt(fnCall[2], fnCall[3], i)
       /\ Hundredths(0) = Zero
       /\ Hundredths(numPoints) = F_ONE
       /\ \A i \in 1 .. numPoints : Call(<< "FLt", Hundredths(i - 1), Hundredths(i) >>)

\* A path between two different positions has been built: its middle
\* vertex is that of t = 0.5 and differs from both ends.
C18_Witness ==
  /\ Returned("Path")
  /\ fnResult[1][51] = VertexAt(fnCall[2], fnCall[3], 50)
  /\ IsFinite(fnResult[1][51].x)
  /\ fnResult[1][51] # fnResult[1][1]
  /\ fnResult[1][51] # fnResult[1][101]

\* The angle between the interpolated vectors of steps i and i + 1, from
\* the length of their difference: 2 asin(|p - q| / 2).
StepAngle(start, end, i) ==
  LET p == InterpCart(start, end, i)
      q == InterpCart(start, end, i + 1)
      chord == norm(Call(<< "vadd", q, Call(<< "scale", FromInt(-1), p >>) >>))
  IN  Then(<< p, q, chord >>,
           Call(<< "FMul", FromInt(2), Call(<< "asinf", FDiv(chord, FromInt(2)) >>) >>))

Tol1e5 == Call(<< "FDiv", FromInt(1), FromInt(100000) >>)

\* All the steps of the path subtend the angle of its first step, within
\* 1e-5 rad.
EqualSteps(start, end) ==
  LET first == StepAngle(start, end, 0)
  IN  \A i \in 1 .. numPoints - 1 :
        Within(StepAngle(start, end, i), first, Tol1e5)

\* C19, as stated: for every pair of endpoints the consecutive interpolated
\* points of the path subtend the same angle (within 1e-5 rad).
C19_EqualStepsAll == Returned("Path") => EqualSteps(fnCall[2], fnCall[3])

\* C19, amended: for every pair of endpoints whose dot product is above
\* -0.999 the consecutive interpolated points of the path subtend the same
\* angle within 1e-5 rad, pairs of the linear branch included.
C19_EqualSteps ==
  (Returned("Path") /\ FGt(DistanceDot, FNeg(Dot999)))
    => EqualSteps(fnCall[2], fnCall[3])

\* The steps of a path of the linear branch between different positions
\* are equal.
C19_Witness ==
  /\ Returned("Path")
  /\ fnCall[2] # fnCall[3]
  /\ FGt(DistanceDot, Threshold)
  /\ EqualSteps(fnCall[2], fnCall[3])

\* The projection of the position fnCall was made with has returned.
Projected == Returned("geoToNormalizedMap")

C13_NoSharedState ==
  [][(fnResult = NoCall /\ fnResult' # NoCall)
       => UNCHANGED << appVars, glVars, decodeVars, fnOrigin, fnCall >>]_vars

(***************************************************************************)
(* Properties of the application, stated of Spec.                          *)
(***************************************************************************)
\* C9: after k presses of the left button there are k stations and k
\* positions, and max(0, k - 1) paths and distances; the first press makes
\* a station but no path and no distance.
C9_Counts ==
  /\ Len(stations) = leftPresses
  /\ Len(stationGeoCoords) = leftPresses
  /\ Len(paths) = (IF leftPresses = 0 THEN 0 ELSE leftPresses - 1)
  /\ Len(distances) = (IF leftPresses = 0 THEN 0 ELSE leftPresses - 1)

\* Three presses of the left button have made three stations and two paths.
C9_Witness == leftPresses = 3 /\ Len(stations) = 3 /\ Len(paths) = 2

\* C10: the path and the distance made by the n-th left press, n >= 2, are
\* those of the pair (stationGeoCoords[n - 2], stationGeoCoords[n - 1]), in
\* that order.
C10_ConsecutivePairs ==
  /\ Len(paths) = Len(distances)
  /\ \A n \in 2 .. Len(stationGeoCoords) :
       /\ n - 1 <= Len(paths)
       /\ paths[n - 1] = NewPath(stationGeoCoords[n - 1], stationGeoCoords[n])
       /\ distances[n - 1] =
            Call(<< "calculateDistance", stationGeoCoords[n - 1], stationGeoCoords[n] >>)

\* Three different positions have been joined by two paths.
C10_Witness ==
  /\ Len(paths) = 2
  /\ stationGeoCoords[1] # stationGeoCoords[2]
  /\ stationGeoCoords[2] # stationGeoCoords[3]
  /\ stationGeoCoords[1] # stationGeoCoords[3]
  /\ paths[2] = NewPath(stationGeoCoords[2], stationGeoCoords[3])

\* C12: hourOffset is 0 after onInitialization; onKeyboard adds exactly 1 to
\* it and requests a refresh when the key is 'n' or 'N', and for every other
\* key leaves hourOffset, stations, paths, distances and the refresh flag as
\* they are; nothing else changes hourOffset, which therefore counts the
\* presses of 'n' and 'N'.
C12_Keyboard ==
  /\ hourOffset = 0
  /\ [][\A key \in Keys :
          onKeyboard(key) =>
            IF key = 110 \/ key = 78
            THEN /\ hourOffset' = hourOffset + 1
                 /\ screenRefresh' = TRUE
                 /\ UNCHANGED << stations, paths, distances >>
            ELSE UNCHANGED << hourOffset, stations, paths, distances,
                             screenRefresh >>]_vars
  /\ [][hourOffset' # hourOffset
          => \E key \in { 110, 78 } : onKeyboard(key)]_vars

\* 'n' has been pressed after a frame was drawn: the hour has advanced and
\* a refresh is requested.
C12_Witness ==
  /\ hourOffset = 1
  /\ screenRefresh = TRUE
  /\ frame # << >>
  /\ frame[1].hour = 0

(***************************************************************************)
(* Properties of Map::decodeImage, stated of DecodeSpec.                   *)
(***************************************************************************)
\* C11: whatever the encoded bytes (none, too few, or runs that sum past
\* 4096), no pixel is written at an index of 4096 or more, the image has
\* 4096 pixels throughout, and what is returned is 4096 pixels all of which
\* have been written.
C11_DecodeBounds ==
  /\ lastWritten < 4096
  /\ Len(pixels) = 4096
  /\ pixelIndex <= 4096
  /\ decodePhase = "returned" => pixelIndex = 4096 /\ lastWritten = 4095

\* An input whose run lengths sum past 4096 has been decoded: its last run
\* began before the end of the image and would have ended after it.
C11_Witness ==
  /\ decodePhase = "returned"
  /\ Len(encodedData) = 65
  /\ runLengthOf(encodedData[65]) = 40
  /\ encodedData[64] # encodedData[65]
  /\ pixels[4096] = colorPalette[colorIndexOf(encodedData[65]) + 1]
  /\ pixels[4056] = colorPalette[colorIndexOf(encodedData[64]) + 1]

(***************************************************************************)
(* The decoded image against the run-length expansion of its input.        *)
(***************************************************************************)
RECURSIVE expandRuns(_, _)
\* The runs of the first n bytes of data one after the other: byte b gives
\* (b >> 2) + 1 pixels of the colour b & 3 of white, blue, green, black.
expandRuns(data, n) ==
  IF n = 0 THEN << >>
  ELSE expandRuns(data, n - 1)
       \o [ k \in 1 .. (data[n] \div 4) + 1 |->
              << "white", "blue", "green", "black" >>[(data[n] % 4) + 1] ]

\* The expansion cut at 4096 pixels, black after its last run.
referenceImage(data, n) ==
  LET runs == expandRuns(data, n)
  IN  [ k \in 1 .. 4096 |-> IF k <= Len(runs) THEN runs[k] ELSE "black" ]

\* C21: the bytes are consumed in order and the image is at every moment
\* the expansion of the bytes consumed so far, cut at 4096 pixels and black
\* after the last run; all bytes have been consumed when the image is
\* returned, so the output is the expansion of the whole input.
C21_ReferenceExpansion ==
  /\ pixels = referenceImage(encodedData, byteIndex)
  /\ decodePhase \in { "fill", "returned" } => byteIndex = Len(encodedData)

\* The input of ten runs of one green pixel has been decoded: ten green
\* pixels, black from the eleventh on.
C21_Witness ==
  /\ decodePhase = "returned"
  /\ Len(encodedData) = 10
  /\ \A k \in 1 .. 10 : pixels[k] = "green"
  /\ \A k \in 11 .. 4096 : pixels[k] = "black"

(***************************************************************************)
(* The frames drawn and the vectors of the application, stated of Spec.    *)
(***************************************************************************)
\* The number of draw calls of the kind in the last frame.
drawn(kind) == Cardinality({ i \in 1 .. Len(frame) : frame[i].kind = kind })

\* C22: the draw calls of one onDisplay are the map, then the paths in the
\* order of their creation, then the stations in the order of their
\* creation: no station is drawn before a path or before the map.
C22_DrawOrder ==
  frame # << >>
    => /\ frame[1].kind = "map"
       /\ drawn("map") = 1
       /\ drawn("path") <= Len(paths)
       /\ drawn("station") <= Len(stations)
       /\ Len(frame) = 1 + drawn("path") + drawn("station")
       /\ \A i \in 1 .. drawn("path") :
            frame[1 + i] = [kind |-> "path", vtx |-> paths[i].vtx]
       /\ \A i \in 1 .. drawn("station") :
            frame[1 + drawn("path") + i]
              = [kind |-> "station", vtx |-> stations[i].vtx]

\* A frame of three stations and two different paths has been drawn: the
\* map, the two paths, the three stations.
C22_Witness ==
  /\ Len(frame) = 6
  /\ frame[1].kind = "map"
  /\ frame[2].kind = "path" /\ frame[3].kind = "path"
  /\ frame[2] # frame[3]
  /\ frame[4].kind = "station" /\ frame[6].kind = "station"
  /\ frame[4] # frame[5] /\ frame[5] # frame[6]

\* The list before is a prefix of the list after.
Extends(after, beforeList) ==
  /\ Len(after) >= Len(beforeList)
  /\ SubSeq(after, 1, Len(beforeList)) = beforeList

\* C23: no event handler changes or removes an entry of stationGeoCoords,
\* stations, paths or distances: each list before a step is a prefix of the
\* list after it.
C23_AppendOnly ==
  [][ /\ Extends(stationGeoCoords', stationGeoCoords)
      /\ Extends(stations', stations)
      /\ Extends(paths', paths)
      /\ Extends(distances', distances) ]_vars

\* Three stations at three different positions exist, the first where the
\* first click put it, after key presses and a frame.
C23_Witness ==
  /\ Len(stationGeoCoords) = 3 /\ Len(stations) = 3
  /\ Len(paths) = 2 /\ Len(distances) = 2
  /\ stationGeoCoords[1] # stationGeoCoords[2]
  /\ stationGeoCoords[2] # stationGeoCoords[3]
  /\ stations[1].vtx # stations[3].vtx
  /\ hourOffset >= 1
  /\ ~screenRefresh

\* C24: screenRefresh is set and nothing is drawn when the loop starts; a
\* frame is drawn only in a step that finds screenRefresh set, and that
\* step clears it and draws the state as it is; every left press and every
\* hour advance sets screenRefresh; and whenever screenRefresh is set, a
\* frame of the state as it then is follows, the first one without any
\* event being needed.
C24_RefreshLoop ==
  /\ << screenRefresh, frame >> = << TRUE, << >> >>
  /\ [][ (frame' # frame \/ (screenRefresh /\ ~screenRefresh'))
           => (screenRefresh /\ ~screenRefresh' /\ frame' = drawCalls) ]_vars
  /\ [][ (stations' # stations \/ hourOffset' # hourOffset)
           => screenRefresh' ]_vars
  /\ (screenRefresh ~> (~screenRefresh /\ frame = drawCalls))

\* The frame of two stations, their path and an advanced hour has been
\* drawn and no display is due.
C24_Witness ==
  /\ ~screenRefresh
  /\ Len(stations) = 2
  /\ hourOffset = 1
  /\ frame = drawCalls
  /\ Len(frame) = 4
  /\ frame[1].hour = 1

\* The handler called last is one that must do nothing: a press of a button
\* other than the left one, a release, or a motion.
IdleMouseEvent(call) ==
  /\ call # NoCall
  /\ \/ call[1] = "onMousePressed" /\ call[2] # "MOUSE_LEFT"
     \/ call[1] = "onMouseReleased"
     \/ call[1] = "onMouseMotion"

\* C25: a press of a button other than the left one, a release and a motion
\* leave stations, stationGeoCoords, paths, distances and hourOffset as they
\* were and do not set screenRefresh.
C25_IdleMouseEvents ==
  [][ IdleMouseEvent(fnCall')
        => UNCHANGED << stations, stationGeoCoords, paths, distances,
                        hourOffset, screenRefresh >> ]_vars

\* The right button has been pressed after the frame of two stations was
\* drawn: no display is due and the frame is still that of the state.
C25_Witness ==
  /\ fnCall # NoCall
  /\ fnCall[1] = "onMousePressed" /\ fnCall[2] = "MOUSE_RIGHT"
  /\ Len(stations) = 2 /\ Len(paths) = 1
  /\ ~screenRefresh
  /\ frame = drawCalls

(***************************************************************************)
(* The station of a click, stated of FnSpec.                               *)
(***************************************************************************)
\* x lies between lo and hi.
Between(x, lo, hi) == IsFinite(x) /\ ~Call(<< "FLt", x, lo >>) /\ ~FGt(x, hi)

\* C26: for a left press at a pixel of the window, the normalized
\* coordinates lie in [-1, 1] x [-1, 1], the latitude of the position lies
\* in [-85, 85], and the station has one vertex, which is the normalized
\* coordinates within 1e-4 (a pixel is 1 / 300 wide).
C26_StationAtClick ==
  Returned("Station")
    => /\ Between(fnOrigin[2].x, FromInt(-1), F_ONE)
       /\ Between(fnOrigin[2].y, FromInt(-1), F_ONE)
       /\ Between(fnCall[2].x, FromInt(-85), FromInt(85))
       /\ Len(fnResult[1].vtx) = 1
       /\ Within2(fnResult[1].vtx[1], fnOrigin[2], Tol1e4)

\* The station of a click ten rows above the lower edge has been made: its
\* vertex is not the clicked point itself, but within 1e-4 of it.
C26_Witness ==
  /\ Returned("Station")
  /\ fnOrigin[2] = ndcOfPixel(300, 589)
  /\ Call(<< "FLt", fnCall[2].x, FromInt(-84) >>)
  /\ fnResult[1].vtx[1] # fnOrigin[2]
  /\ ~Within(fnResult[1].vtx[1].y, fnOrigin[2].y, FLT_EPSILON)
  /\ Within2(fnResult[1].vtx[1], fnOrigin[2], Tol1e4)

=============================================================================
